---- MODULE Spec2Model ----
(* Model of the moltbot memory index: the per-source sync passes             *)
(* (syncClaudeSessionFiles, syncScribeFiles), the store they write           *)
(* (files, chunks, vector index, full-text index) and the search functions   *)
(* of manager-search.ts.                                                     *)
EXTENDS Integers, Sequences, FiniteSets, TLC

(***************************************************************************)
(* Bounds of the model                                                     *)
(***************************************************************************)
MaxSyncs == 2        \* sync() calls explored in one behaviour
MaxEdits == 2        \* changes of the corpus / configuration between sync() calls
MaxConcurrency == 2  \* largest value of params.concurrency
MaxFailures == 1     \* rejections of indexFile explored in one behaviour

(***************************************************************************)
(* Finite domains                                                          *)
(***************************************************************************)
CLAUDE == "claude-sessions"
SCRIBE == "scribe"
Sources == {CLAUDE, SCRIBE}
SyncOrder == <<CLAUDE, SCRIBE>>
Paths == {"p1", "p2"}
\* the files a source's directory can hold
PathsOf(s) == IF s = CLAUDE THEN {"p1", "p2"} ELSE {"p1"}
SP == {sp \in Sources \X Paths : sp[2] \in PathsOf(sp[1])}
Contents == {"c1", "c2"}
Absent == "absent"      \* no such file in the source's directory
Blank == "blank"        \* file exists, empty / whitespace-only / unreadable
DiskVals == Contents \cup {Absent, Blank}
Models == {"m1", "m2"}
SessionIds == {"s1", "s2"}
NoRec == "norec"        \* SELECT ... .get() returned undefined
NULL == "null"          \* SQL NULL / JS null
NoEntry == [none |-> TRUE]
NoSearch == [fn |-> "none"]
NoTemp == [exists |-> FALSE, rows |-> {}]
NoMeta == [schemaVersion |-> "none", dims |-> "none"]
IdleRun == [mode |-> "none", force |-> FALSE, syncAll |-> FALSE, targets |-> {}, done |-> {},
            dims |-> "none", beforeDb |-> {}, beforeMeta |-> NoMeta, last |-> "none"]
NoQuery == [phase |-> "none", reads |-> <<>>]
NoCounts == [valid |-> FALSE, files |-> 0, chunks |-> 0]
NoForcedCounts == [last |-> NoCounts, first |-> NoCounts, second |-> NoCounts]
NoProgress == [present |-> FALSE, completed |-> 0, total |-> 0]
NoUpdate == [completed |-> 0, total |-> 0]
NoProgressLog == [last |-> NoUpdate, atStart |-> NoUpdate]
\* memorySearch full-text search is enabled in the configuration
ftsEnabled == TRUE
\* params.concurrency; every schedule of a smaller value is one of its schedules
concurrency == MaxConcurrency

(***************************************************************************)
(* Pure helpers of the adapters                                            *)
(***************************************************************************)
\* createHash("sha256").update(content).digest("hex")
Sha256(content) == IF content = "c1" THEN "h1" ELSE "h2"

\* extractProjectSlug(absPath): slug of the parent directory of the session
ExtractProjectSlug(p) == IF p = "p1" THEN "mine" ELSE "moltbot"

\* repo.project of the repository that holds a context/ file
ScribeProject(p) == "mine"

\* sessionId ?? path.basename(absPath, ".jsonl")
ClaudeSessionId(p) == IF p = "p1" THEN "s1" ELSE "s2"

\* buildClaudeSessionEntry(absPath)
BuildClaudeSessionEntry(d, p) ==
  IF d[<<CLAUDE, p>>] \notin Contents THEN NoEntry
  ELSE [none |-> FALSE, path |-> p, content |-> d[<<CLAUDE, p>>],
        hash |-> Sha256(d[<<CLAUDE, p>>]), project |-> ExtractProjectSlug(p),
        claudeSessionId |-> ClaudeSessionId(p)]

\* buildScribeFileEntry(absPath, project)
BuildScribeFileEntry(d, p) ==
  IF d[<<SCRIBE, p>>] \notin Contents THEN NoEntry
  ELSE [none |-> FALSE, path |-> p, content |-> d[<<SCRIBE, p>>],
        hash |-> Sha256(d[<<SCRIBE, p>>]), project |-> ScribeProject(p),
        claudeSessionId |-> NULL]

BuildEntry(d, s, p) ==
  IF s = CLAUDE THEN BuildClaudeSessionEntry(d, p) ELSE BuildScribeFileEntry(d, p)

\* listClaudeSessionFiles() / discoverScribeRepos() + listMarkdownFiles():
\* the files present under the source's directory; a missing directory lists nothing
ListFiles(d, s) == {p \in PathsOf(s) : d[<<s, p>>] # Absent}

(***************************************************************************)
(* Chunking and embedding (manager.indexFile)                              *)
(***************************************************************************)
\* the chunker: passages of a content, by first line
ChunkStarts(content) == IF content = "c1" THEN {1} ELSE {1, 2}
ChunkText(content, k) == IF content = "c2" /\ k = 2 THEN "beta" ELSE "alpha"
Embed(content, k) == IF content = "c2" /\ k = 2 THEN <<0, 1>> ELSE <<1, 0>>
ChunkId(s, p, k, hash, m) == <<s, p, k, hash, m>>

ChunksOf(s, entry, m) ==
  {[id |-> ChunkId(s, entry.path, k, entry.hash, m), path |-> entry.path, source |-> s,
    project |-> entry.project, startLine |-> k, model |-> m,
    text |-> ChunkText(entry.content, k), embedding |-> Embed(entry.content, k)]
     : k \in ChunkStarts(entry.content)}

FtsRowOf(c) == [id |-> c.id, path |-> c.path, source |-> c.source, model |-> c.model,
                startLine |-> c.startLine, text |-> c.text]
VecRowOf(c) == [id |-> c.id, embedding |-> c.embedding]

VARIABLES
  disk,              \* the corpus: content of every file of every source
  sessionStore,      \* ids returned by loadMoltbotClaudeSessionIds
  model,             \* provider model of the configuration
  ftsAvailable,      \* the full-text table could be loaded
  vectorAvailable,   \* statements on the vector table succeed
  files, chunks, vec, fts,   \* the store
  embeddingCache,    \* the embedding cache table: one entry per model and chunk text
  pc, cur,           \* position of runSync: phase and index into SyncOrder
  needsFullReindex, excludeSessionIds,
  activePaths, task, calls, firstError,
  record,            \* the hash each task read from the files table
  staleRows, staleLeft,
  outcome, threw,
  syncs, edits, failures,
  cleanPrev,         \* the last sync() call completed every source's pass
  changed,           \* what was edited since that call
  forcedCounts,      \* file and chunk counts after the last two forced sync() calls
  progress,          \* params.progress of the sync() call: completed and total
  progressLog,       \* the last update passed to progress.report, and progress as
                     \* it was when the running pass began
  search,            \* parameters of the last call of a pure function of the engine
  result,            \* what it returned
  mainDb,            \* the committed dataset: indexed files with their embedding dimensions
  tempDb,            \* the dataset a full reindex builds out of place
  meta,              \* the sync metadata record of the committed dataset
  providerDims,      \* dimensionality of the active embedding provider
  run,               \* the sync controller: mode and inputs of the running pass
  query,             \* a query in flight: what its reads observed
  kills              \* interrupted passes so far

cfgVars == <<model, ftsAvailable, vectorAvailable>>
envVars == <<disk, sessionStore>>
dbVars == <<files, chunks, vec, fts>>
passVars == <<activePaths, task, calls, record, firstError, staleRows, staleLeft>>
histVars == <<cleanPrev, changed, forcedCounts>>
progressVars == <<progress, progressLog>>
searchVars == <<search, result>>
reindexVars == <<mainDb, tempDb, meta, providerDims, run, query, kills>>
vars == <<disk, sessionStore, model, ftsAvailable, vectorAvailable, files, chunks, vec, fts,
          embeddingCache, pc, cur, needsFullReindex,
          excludeSessionIds, activePaths, task, calls, record, firstError, staleRows,
          staleLeft, outcome, threw, syncs, edits, failures, cleanPrev, changed, forcedCounts,
          progress, progressLog, search, result, mainDb, tempDb, meta, providerDims, run, query, kills>>

Source == SyncOrder[cur]

\* manager.status(): the number of file records and of chunk rows
StatusCounts(f, ch) ==
  [valid |-> TRUE, files |-> Cardinality({sp \in SP : f[sp] # NoRec}),
   chunks |-> Cardinality(ch)]

InitDisk == [sp \in SP |-> "c1"]

Init ==
  /\ disk = InitDisk
  /\ sessionStore = {}
  /\ model = "m1"
  /\ ftsAvailable = TRUE
  /\ vectorAvailable = TRUE
  /\ files = [sp \in SP |-> NoRec]
  /\ chunks = {} /\ vec = {} /\ fts = {}
  /\ pc = "idle" /\ cur = 1
  /\ needsFullReindex = FALSE /\ excludeSessionIds = {}
  /\ activePaths = {} /\ task = [p \in Paths |-> "none"]
  /\ calls = [p \in Paths |-> 0] /\ firstError = FALSE
  /\ record = [p \in Paths |-> NoRec]
  /\ staleRows = {} /\ staleLeft = {}
  /\ outcome = [s \in Sources |-> "none"] /\ threw = FALSE
  /\ syncs = 0 /\ edits = 0 /\ failures = 0
  /\ cleanPrev = FALSE /\ changed = {}
  /\ forcedCounts = NoForcedCounts
  /\ progress = NoProgress /\ progressLog = NoProgressLog
  /\ embeddingCache = {}
  /\ search = NoSearch /\ result = <<>>
  /\ mainDb = {} /\ tempDb = NoTemp /\ meta = NoMeta /\ providerDims = "d768"
  /\ run = IdleRun /\ query = NoQuery /\ kills = 0

(***************************************************************************)
(* The environment between sync() calls                                    *)
(***************************************************************************)
EditFile(s, p, v) ==
  /\ pc = "idle" /\ edits < MaxEdits
  /\ disk[<<s, p>>] # v
  /\ disk' = [disk EXCEPT ![<<s, p>>] = v]
  /\ edits' = edits + 1
  /\ changed' = IF cleanPrev THEN changed \cup {<<s, p>>} ELSE changed
  /\ forcedCounts' = NoForcedCounts
  /\ UNCHANGED <<searchVars, reindexVars, embeddingCache, progressVars, sessionStore, cfgVars, dbVars, pc, cur, needsFullReindex,
                 excludeSessionIds, passVars, outcome, threw, syncs, failures, cleanPrev>>

\* a session of this system gains or loses its Claude CLI session id
EditSessionStore(id) ==
  /\ pc = "idle" /\ edits < MaxEdits
  /\ sessionStore' = IF id \in sessionStore THEN sessionStore \ {id}
                     ELSE sessionStore \cup {id}
  /\ edits' = edits + 1
  /\ changed' = IF cleanPrev THEN changed \cup {<<"state", "sessions.json">>} ELSE changed
  /\ forcedCounts' = NoForcedCounts
  /\ UNCHANGED <<searchVars, reindexVars, embeddingCache, progressVars, disk, cfgVars, dbVars, pc, cur, needsFullReindex, excludeSessionIds,
                 passVars, outcome, threw, syncs, failures, cleanPrev>>

EditConfig(m, fa, va) ==
  /\ pc = "idle" /\ edits < MaxEdits
  \* one setting changes at a time
  /\ Cardinality({i \in 1..3 : <<m, fa, va>>[i] # cfgVars[i]}) = 1
  /\ model' = m /\ ftsAvailable' = fa /\ vectorAvailable' = va
  /\ edits' = edits + 1
  /\ UNCHANGED <<searchVars, reindexVars, embeddingCache, progressVars, envVars, dbVars, pc, cur, needsFullReindex, excludeSessionIds,
                 passVars, outcome, threw, syncs, failures, histVars>>

(***************************************************************************)
(* manager.runSync: one sync() call walks the sources in order             *)
(***************************************************************************)
\* the counters of a progress object as an update passed to progress.report
UpdateOf(pr) == [completed |-> pr.completed, total |-> pr.total]

\* if (params.progress) params.progress.total += files.length
AddTotal(pr, n) == IF pr.present THEN [pr EXCEPT !.total = @ + n] ELSE pr

\* faulty variant: a task that returns before indexFile is not counted
AddCompletedIndexedOnly(pr, indexed) ==
  IF pr.present /\ indexed THEN [pr EXCEPT !.completed = @ + 1] ELSE pr
\* if (params.progress) params.progress.completed += 1, at each of the task's ends
AddCompleted(pr, indexed) == IF pr.present THEN [pr EXCEPT !.completed = @ + 1] ELSE pr

\* params.progress.report({ completed, total }) after a change of the counters
Report(log, pr) == IF pr.present THEN [log EXCEPT !.last = UpdateOf(pr)] ELSE log

StartSync(full, withProgress) ==
  /\ pc = "idle" /\ syncs < MaxSyncs
  /\ needsFullReindex' = full
  /\ progress' = [present |-> withProgress, completed |-> 0, total |-> 0]
  /\ progressLog' = NoProgressLog
  /\ excludeSessionIds' = sessionStore
  /\ outcome' = [s \in Sources |-> "none"]
  /\ threw' = FALSE
  /\ cur' = 1
  /\ pc' = "begin"
  /\ UNCHANGED <<searchVars, reindexVars, embeddingCache, envVars, cfgVars, dbVars, passVars, syncs, edits,
                 failures, histVars>>

\* files = await listClaudeSessionFiles(); activePaths = new Set(files);
\* tasks = files.map(...)
BeginPass ==
  /\ pc = "begin"
  /\ activePaths' = ListFiles(disk, Source)
  /\ task' = [p \in Paths |-> IF p \in ListFiles(disk, Source) THEN "pending" ELSE "none"]
  /\ calls' = [p \in Paths |-> 0]
  /\ record' = [p \in Paths |-> NoRec]
  /\ firstError' = FALSE
  /\ staleRows' = {} /\ staleLeft' = {}
  /\ progress' = AddTotal(progress, Cardinality(ListFiles(disk, Source)))
  /\ progressLog' = [Report(progressLog, AddTotal(progress, Cardinality(ListFiles(disk, Source))))
                       EXCEPT !.atStart = UpdateOf(progress)]
  /\ pc' = "tasks"
  /\ UNCHANGED <<searchVars, reindexVars, embeddingCache, envVars, cfgVars, dbVars, cur, needsFullReindex, excludeSessionIds,
                 outcome, threw, syncs, edits, failures, histVars>>

(***************************************************************************)
(* One per-file task of a pass                                             *)
(***************************************************************************)
\* faulty variant: the exclusion set is ignored
IsExcludedNever(s, entry, excl) == FALSE
\* params.excludeSessionIds.has(entry.claudeSessionId); syncScribeFiles has no such test
IsExcluded(s, entry, excl) == s = CLAUDE /\ entry.claudeSessionId \in excl

\* faulty variant: the stored hash is ignored
NeedsIndexAlways(full, stored, entry) == TRUE
\* faulty variant: the needsFullReindex flag is ignored
NeedsIndexHashOnly(full, stored, entry) == stored # entry.hash
\* the negation of: !params.needsFullReindex && record?.hash === entry.hash
NeedsIndex(full, stored, entry) == full \/ stored # entry.hash

\* the task up to its await of params.indexFile(entry): "skip" or "index"
TaskDecision(s, p) ==
  LET entry == BuildEntry(disk, s, p) IN
  IF entry.none THEN "skip"
  ELSE IF IsExcluded(s, entry, excludeSessionIds) THEN "skip"
  ELSE IF NeedsIndex(needsFullReindex, files[<<s, p>>], entry) THEN "index"
  ELSE "skip"

\* the task reaches SELECT hash FROM files WHERE path = ? AND source = ?
ReadsRecord(s, p) ==
  LET entry == BuildEntry(disk, s, p) IN
  ~entry.none /\ ~IsExcluded(s, entry, excludeSessionIds)

Running == {p \in Paths : task[p] = "indexing"}

\* runWithConcurrency: a worker takes a task while fewer than `limit` are in flight
\* and no task has failed
MayStart(limit) == Cardinality(Running) < limit /\ ~firstError

StartTask(p) ==
  /\ pc = "tasks" /\ task[p] = "pending"
  /\ MayStart(concurrency)
  /\ IF TaskDecision(Source, p) = "index"
       THEN /\ task' = [task EXCEPT ![p] = "indexing"]
            /\ calls' = [calls EXCEPT ![p] = @ + 1]
            /\ UNCHANGED progressVars
       ELSE /\ task' = [task EXCEPT ![p] = "done"]
            /\ calls' = calls
            /\ progress' = AddCompleted(progress, FALSE)
            /\ progressLog' = Report(progressLog, AddCompleted(progress, FALSE))
  /\ record' = [record EXCEPT ![p] = IF ReadsRecord(Source, p) THEN files[<<Source, p>>]
                                     ELSE NoRec]
  /\ UNCHANGED <<searchVars, reindexVars, embeddingCache, envVars, cfgVars, dbVars, pc, cur, needsFullReindex, excludeSessionIds,
                 activePaths, firstError, staleRows, staleLeft, outcome, threw,
                 syncs, edits, failures, histVars>>

\* manager.indexFile embeds the chunks through the cache: a text that misses is
\* embedded and its entry appended, under the provider's model
CacheAfterIndex(cache, s, entry) ==
  cache \cup {[model |-> c.model, text |-> c.text] : c \in ChunksOf(s, entry, model)}

\* faulty variant: the new chunks are added to the file's previous chunks
IndexFileChunksAdded(s, entry) == chunks \cup ChunksOf(s, entry, model)

\* manager.indexFile: the file's chunk set, its index rows and its file record are
\* replaced as one unit
IndexFileChunks(s, entry) ==
  {c \in chunks : ~(c.path = entry.path /\ c.source = s)} \cup ChunksOf(s, entry, model)
IndexFileVec(s, entry) ==
  {v \in vec : \A c \in chunks : (c.path = entry.path /\ c.source = s) => v.id # c.id}
    \cup (IF vectorAvailable THEN {VecRowOf(c) : c \in ChunksOf(s, entry, model)} ELSE {})
IndexFileFts(s, entry) ==
  {f \in fts : ~(f.path = entry.path /\ f.source = s)}
    \cup (IF ftsEnabled /\ ftsAvailable
            THEN {FtsRowOf(c) : c \in ChunksOf(s, entry, model)} ELSE {})

IndexFileOk(p) ==
  /\ pc = "tasks" /\ task[p] = "indexing"
  /\ LET entry == BuildEntry(disk, Source, p) IN
       /\ chunks' = IndexFileChunks(Source, entry)
       /\ vec' = IndexFileVec(Source, entry)
       /\ fts' = IndexFileFts(Source, entry)
       /\ files' = [files EXCEPT ![<<Source, p>>] = entry.hash]
  /\ task' = [task EXCEPT ![p] = "done"]
  /\ progress' = AddCompleted(progress, TRUE)
  /\ progressLog' = Report(progressLog, AddCompleted(progress, TRUE))
  /\ embeddingCache' = CacheAfterIndex(embeddingCache, Source, BuildEntry(disk, Source, p))
  /\ UNCHANGED <<searchVars, reindexVars, envVars, cfgVars, pc, cur, needsFullReindex, excludeSessionIds,
                 activePaths, calls, record, firstError, staleRows, staleLeft, outcome,
                 threw,
                 syncs, edits, failures, histVars>>

\* params.indexFile(entry) rejects (provider error): the task has no catch, so the
\* task's promise rejects
IndexFileFail(p) ==
  /\ pc = "tasks" /\ task[p] = "indexing"
  /\ failures < MaxFailures
  /\ failures' = failures + 1
  /\ task' = [task EXCEPT ![p] = "failed"]
  /\ firstError' = TRUE
  /\ UNCHANGED <<searchVars, reindexVars, embeddingCache, progressVars, envVars, cfgVars, dbVars, pc, cur, needsFullReindex, excludeSessionIds,
                 activePaths, calls, record, staleRows, staleLeft, outcome, threw,
                 syncs, edits, histVars>>

(***************************************************************************)
(* await params.runWithConcurrency(tasks, params.concurrency)              *)
(***************************************************************************)
\* faulty variant: the pool is not awaited
AllTasksDoneUnawaited == TRUE
\* the await resumes only when every task has run to its end
AllTasksDone == \A p \in activePaths : task[p] = "done"

\* SELECT path FROM files WHERE source = ?
SelectPaths(s) == {p \in PathsOf(s) : files[<<s, p>>] # NoRec}

\* faulty variant: the listing is ignored
IsStaleAlways(p, active) == TRUE
\* if (activePaths.has(stale.path)) continue;
IsStale(p, active) == p \notin active

PoolResolved ==
  /\ pc = "tasks" /\ AllTasksDone
  /\ staleRows' = {p \in SelectPaths(Source) : IsStale(p, activePaths)}
  /\ staleLeft' = {p \in SelectPaths(Source) : IsStale(p, activePaths)}
  /\ IF {p \in SelectPaths(Source) : IsStale(p, activePaths)} = {}
       THEN /\ pc' = "passEnd"
            /\ outcome' = [outcome EXCEPT ![Source] = "ok"]
       ELSE /\ pc' = "delFiles"
            /\ outcome' = outcome
  /\ UNCHANGED <<searchVars, reindexVars, embeddingCache, progressVars, envVars, cfgVars, dbVars, cur, needsFullReindex, excludeSessionIds,
                 activePaths, task, calls, record, firstError, threw, syncs, edits, failures, histVars>>

\* a task rejected: the await throws and the rest of the pass is skipped
PoolRejected ==
  /\ pc = "tasks" /\ firstError /\ Running = {}
  /\ pc' = "passEnd"
  /\ outcome' = [outcome EXCEPT ![Source] = "failed"]
  /\ UNCHANGED <<searchVars, reindexVars, embeddingCache, progressVars, envVars, cfgVars, dbVars, cur, needsFullReindex, excludeSessionIds,
                 passVars, threw, syncs, edits, failures, histVars>>

(***************************************************************************)
(* Stale-record reconciliation: for (const stale of staleRows) { ... }     *)
(***************************************************************************)
Stale == CHOOSE p \in staleLeft : TRUE

\* faulty variant: the entries of the stale file's chunks are deleted from the cache
CachePurgedOfFile(cache, ch, s, p) ==
  {e \in cache : \A c \in ch : (c.path = p /\ c.source = s) =>
                                  ~(e.model = c.model /\ e.text = c.text)}
\* the body of the loop has no statement on the embedding cache table
CacheAfterStale(cache, ch, s, p) == cache

\* faulty variant: DELETE FROM files WHERE source = ?
DeleteFileRowAllPaths(f, s, p) == [sp \in SP |-> IF sp[1] = s THEN NoRec ELSE f[sp]]
\* DELETE FROM files WHERE path = ? AND source = ?
DeleteFileRow(f, s, p) == [f EXCEPT ![<<s, p>>] = NoRec]

\* DELETE FROM <vectorTable> WHERE id IN (SELECT id FROM chunks WHERE path = ? AND
\* source = ?), inside try {} catch {}
DeleteVecRows(v, ch, s, p, ok) ==
  IF ok THEN {r \in v : \A c \in ch : (c.path = p /\ c.source = s) => r.id # c.id}
  ELSE v

\* faulty variant: DELETE FROM chunks WHERE path = ?
DeleteChunkRowsAnySource(ch, s, p) == {c \in ch : c.path # p}
\* DELETE FROM chunks WHERE path = ? AND source = ?
DeleteChunkRows(ch, s, p) == {c \in ch : ~(c.path = p /\ c.source = s)}

\* if (ftsEnabled && ftsAvailable) DELETE FROM <ftsTable> WHERE path = ? AND source = ?
\* AND model = ?
DeleteFtsRows(f, s, p, m, enabled, available) ==
  IF enabled /\ available
    THEN {r \in f : ~(r.path = p /\ r.source = s /\ r.model = m)}
    ELSE f

DelFiles ==
  /\ pc = "delFiles"
  /\ embeddingCache' = CacheAfterStale(embeddingCache, chunks, Source, Stale)
  /\ files' = DeleteFileRow(files, Source, Stale)
  /\ pc' = "delVec"
  /\ UNCHANGED <<searchVars, reindexVars, progressVars, envVars, cfgVars, chunks, vec, fts, cur, needsFullReindex,
                 excludeSessionIds, passVars, outcome, threw, syncs, edits, failures, histVars>>

DelVec ==
  /\ pc = "delVec"
  /\ embeddingCache' = CacheAfterStale(embeddingCache, chunks, Source, Stale)
  /\ vec' = DeleteVecRows(vec, chunks, Source, Stale, vectorAvailable)
  /\ pc' = "delChunks"
  /\ UNCHANGED <<searchVars, reindexVars, progressVars, envVars, cfgVars, files, chunks, fts, cur, needsFullReindex,
                 excludeSessionIds, passVars, outcome, threw, syncs, edits, failures, histVars>>

DelChunks ==
  /\ pc = "delChunks"
  /\ embeddingCache' = CacheAfterStale(embeddingCache, chunks, Source, Stale)
  /\ chunks' = DeleteChunkRows(chunks, Source, Stale)
  /\ pc' = "delFts"
  /\ UNCHANGED <<searchVars, reindexVars, progressVars, envVars, cfgVars, files, vec, fts, cur, needsFullReindex,
                 excludeSessionIds, passVars, outcome, threw, syncs, edits, failures, histVars>>

DelFts ==
  /\ pc = "delFts"
  /\ embeddingCache' = CacheAfterStale(embeddingCache, chunks, Source, Stale)
  /\ fts' = DeleteFtsRows(fts, Source, Stale, model, ftsEnabled, ftsAvailable)
  /\ staleLeft' = staleLeft \ {Stale}
  /\ IF staleLeft \ {Stale} = {}
       THEN /\ pc' = "passEnd"
            /\ outcome' = [outcome EXCEPT ![Source] = "ok"]
       ELSE /\ pc' = "delFiles"
            /\ outcome' = outcome
  /\ UNCHANGED <<searchVars, reindexVars, progressVars, envVars, cfgVars, files, chunks, vec, cur, needsFullReindex,
                 excludeSessionIds, activePaths, task, calls, record, firstError,
                 staleRows, threw, syncs, edits, failures, histVars>>

(***************************************************************************)
(* manager.runSync after a source's pass                                   *)
(***************************************************************************)
\* faulty variant: the pass is awaited outside any try
SourceFailureUncaught(passOutcome) == FALSE
\* each source's pass runs inside try {} catch {}: a failed pass is logged
SourceFailureCaught(passOutcome) == TRUE

NextSource ==
  /\ pc = "passEnd"
  /\ outcome[Source] = "ok" \/ SourceFailureCaught(outcome[Source])
  /\ cur < Len(SyncOrder)
  /\ cur' = cur + 1
  /\ pc' = "begin"
  /\ UNCHANGED <<searchVars, reindexVars, embeddingCache, progressVars, envVars, cfgVars, dbVars, needsFullReindex, excludeSessionIds,
                 passVars, outcome, threw, syncs, edits, failures, histVars>>

\* the sync() call ends after the last source, or at a failure that is not caught
FinishSync ==
  /\ pc = "passEnd"
  /\ \/ cur = Len(SyncOrder)
     \/ outcome[Source] = "failed" /\ ~SourceFailureCaught(outcome[Source])
  /\ threw' = (outcome[Source] = "failed" /\ ~SourceFailureCaught(outcome[Source]))
  /\ pc' = "idle"
  /\ syncs' = syncs + 1
  /\ cleanPrev' = \A s \in Sources : outcome[s] = "ok"
  /\ changed' = {}
  /\ forcedCounts' =
       IF needsFullReindex /\ \A s \in Sources : outcome[s] = "ok"
         THEN [last |-> StatusCounts(files, chunks),
               first |-> forcedCounts.last,
               second |-> IF forcedCounts.last.valid THEN StatusCounts(files, chunks)
                          ELSE NoCounts]
         ELSE NoForcedCounts
  /\ UNCHANGED <<searchVars, reindexVars, embeddingCache, progressVars, envVars, cfgVars, dbVars, cur, needsFullReindex, excludeSessionIds,
                 passVars, outcome, edits, failures>>

Next ==
  \/ \E sp \in SP, v \in DiskVals : EditFile(sp[1], sp[2], v)
  \/ \E id \in SessionIds : EditSessionStore(id)
  \/ \E m \in Models, fa \in BOOLEAN, va \in BOOLEAN : EditConfig(m, fa, va)
  \/ \E full \in BOOLEAN, withProgress \in BOOLEAN : StartSync(full, withProgress)
  \/ BeginPass
  \/ \E p \in Paths : StartTask(p)
  \/ \E p \in Paths : IndexFileOk(p)
  \/ \E p \in Paths : IndexFileFail(p)
  \/ PoolResolved
  \/ PoolRejected
  \/ DelFiles
  \/ DelVec
  \/ DelChunks
  \/ DelFts
  \/ NextSource
  \/ FinishSync

Spec == Init /\ [][Next]_vars

(***************************************************************************)
(* manager-search.ts: the search functions over a store                    *)
(***************************************************************************)
MaxChunks == 2       \* chunk rows of a searched store
MaxLimit == 2        \* largest params.limit

MEMORY == "memory"
SESSIONS == "sessions"
SearchSources == {MEMORY, SESSIONS}
ProjectVals == {"a", "b", NULL}
NoProject == "undefined"                 \* params.project omitted
QueryVecs == {<<>>, <<1, 0>>}
FtsQueries == {NULL, "alpha", "zeta"}    \* what params.buildFtsQuery(params.query) yields

\* a row of the chunks table as the tests insert it
ChunkRow(k, s, proj, m) ==
  [id |-> k, path |-> k, source |-> s, project |-> proj, startLine |-> 1, model |-> m,
   text |-> "alpha", embedding |-> IF k % 2 = 1 THEN <<1, 0>> ELSE <<0, 1>>]

\* SQL three-valued logic of the WHERE clause
SqlEq(a, b) == IF a = NULL \/ b = NULL THEN "unknown" ELSE IF a = b THEN "true" ELSE "false"
SqlIsNull(a) == IF a = NULL THEN "true" ELSE "false"
SqlOr(x, y) ==
  IF x = "true" \/ y = "true" THEN "true"
  ELSE IF x = "false" /\ y = "false" THEN "false" ELSE "unknown"

\* faulty variant: no clause for any project
buildProjectFilterNone(project) == [sql |-> "", params |-> <<>>]
\* buildProjectFilter(project, alias): the clause and its bound parameters
buildProjectFilter(project) ==
  IF project = NoProject THEN [sql |-> "", params |-> <<>>]
  ELSE [sql |-> " AND (project = ? OR ? IS NULL)", params |-> <<project, project>>]

\* a row passes the clause when the clause evaluates to true
ProjectClause(filter, column) ==
  \/ filter.sql = ""
  \/ SqlOr(SqlEq(column, filter.params[1]), SqlIsNull(filter.params[2])) = "true"

\* sourceFilter: the sources of the IN (...) list
SourceClause(sourceFilter, column) == column \in sourceFilter

\* an embedding whose components are so large that its norm is not a finite number
OverflowEmbedding == <<3, 3>>
\* a JS number: a finite value, or NaN
Finite(n) == [finite |-> TRUE, value |-> n]
NaN == [finite |-> FALSE, value |-> 0]

\* cosineSimilarity(a, b): of unit vectors the dot product, NaN when a norm overflows
cosineSimilarity(a, b) ==
  IF a = OverflowEmbedding \/ b = OverflowEmbedding THEN NaN
  ELSE Finite(a[1] * b[1] + a[2] * b[2])
\* faulty variant: no candidate is dropped
IsFiniteAlways(score) == TRUE
\* Number.isFinite(entry.score)
IsFinite(score) == score.finite
\* bm25(ftsTable): the rank of a matching row, lower is better
Bm25(f) == 0 - f.id
bm25RankToScore(rank) == 0 - rank
FtsMatch(f, ftsQuery) == f.text = ftsQuery

ResultRow(r, score) == [id |-> r.id, path |-> r.path, source |-> r.source, score |-> score]

\* ORDER BY key ASC LIMIT k / sort + slice(0, k): rows of equal key come in any order
OrderedTop(rows, key, k) ==
  LET n == IF Cardinality(rows) < k THEN Cardinality(rows) ELSE k
  IN {s \in [1..n -> rows] :
        /\ \A i, j \in 1..n : i < j => s[i] # s[j] /\ key[s[i]] <= key[s[j]]
        /\ \A r \in rows : (\A i \in 1..n : s[i] # r) => \A i \in 1..n : key[s[i]] <= key[r]}

\* faulty variant: WHERE without model = ?
listChunksAnyModel(providerModel, sourceFilter, projectFilter) ==
  {c \in chunks : /\ SourceClause(sourceFilter, c.source)
                  /\ ProjectClause(projectFilter, c.project)}

\* SELECT ... FROM chunks WHERE model = ?<sourceFilter><projectFilter>
listChunks(providerModel, sourceFilter, projectFilter) ==
  {c \in chunks : /\ c.model = providerModel
                  /\ SourceClause(sourceFilter, c.source)
                  /\ ProjectClause(projectFilter, c.project)}

\* faulty variant: no in-memory fallback, the call fails when the vector table is
\* not ready
searchVectorNoFallback(providerModel, queryVec, limit, ready, sourceFilter, project) ==
  IF queryVec = <<>> \/ limit <= 0 THEN {<<>>}
  ELSE IF ready THEN
    LET joined == {c \in chunks : /\ \E v \in vec : v.id = c.id
                                  /\ c.model = providerModel
                                  /\ SourceClause(sourceFilter, c.source)
                                  /\ ProjectClause(buildProjectFilter(project), c.project)}
    IN {[i \in DOMAIN s |-> ResultRow(s[i], 0)] : s \in OrderedTop(joined, [c \in joined |-> 0], limit)}
  ELSE {<<"no such table">>}

\* the possible return values of searchVector
searchVector(providerModel, queryVec, limit, ready, sourceFilter, project) ==
  IF queryVec = <<>> \/ limit <= 0 THEN {<<>>}
  ELSE IF ready THEN
    LET projectFilter == buildProjectFilter(project)
        joined == {c \in chunks : /\ \E v \in vec : v.id = c.id
                                  /\ c.model = providerModel
                                  /\ SourceClause(sourceFilter, c.source)
                                  /\ ProjectClause(projectFilter, c.project)}
        Dist(c) == 1 - cosineSimilarity((CHOOSE v \in vec : v.id = c.id).embedding, queryVec).value
    IN {[i \in DOMAIN s |-> ResultRow(s[i], 1 - Dist(s[i]))] : s \in OrderedTop(joined, [c \in joined |-> Dist(c)], limit)}
  ELSE
    LET chunksProjectFilter == buildProjectFilter(project)
        candidates == listChunks(providerModel, sourceFilter, chunksProjectFilter)
        Score(c) == cosineSimilarity(queryVec, c.embedding)
        scored == {c \in candidates : IsFinite(Score(c))}
    IN {[i \in DOMAIN s |-> ResultRow(s[i], Score(s[i]).value)]
          : s \in OrderedTop(scored, [c \in scored |-> 0 - Score(c).value], limit)}

\* the possible return values of searchKeyword
searchKeyword(providerModel, ftsQuery, limit, sourceFilter, project) ==
  IF limit <= 0 \/ ftsQuery = NULL THEN {<<>>}
  ELSE
    LET projectFilter == buildProjectFilter(project)
        needsJoin == project # NoProject
        rows == {f \in fts : /\ FtsMatch(f, ftsQuery)
                             /\ f.model = providerModel
                             /\ SourceClause(sourceFilter, f.source)
                             /\ needsJoin =>
                                  \E c \in chunks : /\ c.id = f.id
                                                    /\ ProjectClause(projectFilter, c.project)}
    IN {[i \in DOMAIN s |-> ResultRow(s[i], bm25RankToScore(Bm25(s[i])))]
          : s \in OrderedTop(rows, [f \in rows |-> Bm25(f)], limit)}

\* the stores searched: up to MaxChunks chunk rows, each with the vector row and the
\* full-text row that indexing wrote for it
SearchStores ==
  {st \in [1..MaxChunks -> {NULL} \cup (SearchSources \X ProjectVals \X Models)] : TRUE}

InitSearch ==
  /\ disk = InitDisk
  /\ sessionStore = {}
  /\ model = "m1"
  /\ ftsAvailable = TRUE
  /\ vectorAvailable = TRUE
  /\ files = [sp \in SP |-> NoRec]
  /\ \E st \in SearchStores :
       /\ chunks = {ChunkRow(k, st[k][1], st[k][2], st[k][3]) : k \in {i \in 1..MaxChunks : st[i] # NULL}}
       /\ vec = {VecRowOf(ChunkRow(k, st[k][1], st[k][2], st[k][3])) :
                  k \in {i \in 1..MaxChunks : st[i] # NULL}}
       /\ fts = {FtsRowOf(ChunkRow(k, st[k][1], st[k][2], st[k][3])) :
                  k \in {i \in 1..MaxChunks : st[i] # NULL}}
  /\ pc = "idle" /\ cur = 1
  /\ needsFullReindex = FALSE /\ excludeSessionIds = {}
  /\ activePaths = {} /\ task = [p \in Paths |-> "none"]
  /\ calls = [p \in Paths |-> 0] /\ firstError = FALSE
  /\ record = [p \in Paths |-> NoRec]
  /\ staleRows = {} /\ staleLeft = {}
  /\ outcome = [s \in Sources |-> "none"] /\ threw = FALSE
  /\ syncs = 0 /\ edits = 0 /\ failures = 0
  /\ cleanPrev = FALSE /\ changed = {}
  /\ forcedCounts = NoForcedCounts
  /\ progress = NoProgress /\ progressLog = NoProgressLog
  /\ embeddingCache = {}
  /\ search = NoSearch /\ result = <<>>
  /\ mainDb = {} /\ tempDb = NoTemp /\ meta = NoMeta /\ providerDims = "d768"
  /\ run = IdleRun /\ query = NoQuery /\ kills = 0

syncVars == <<disk, sessionStore, model, ftsAvailable, vectorAvailable, files, chunks, vec,
              fts, pc, cur, needsFullReindex, excludeSessionIds, activePaths, task, calls,
              record, firstError, staleRows, staleLeft, outcome, threw, syncs, edits,
              failures, cleanPrev, changed, forcedCounts, progress, progressLog,
              embeddingCache>>

ListChunksCall(providerModel, sourceFilter, project) ==
  /\ search = NoSearch
  /\ search' = [fn |-> "listChunks", providerModel |-> providerModel,
                sourceFilter |-> sourceFilter, project |-> project]
  /\ \E s \in OrderedTop(listChunks(providerModel, sourceFilter, buildProjectFilter(project)),
                         [c \in chunks |-> 0], MaxChunks + 1) :
       result' = [i \in DOMAIN s |-> ResultRow(s[i], 0)]
  /\ UNCHANGED <<syncVars, reindexVars>>

SearchVectorCall(providerModel, queryVec, limit, ready, sourceFilter, project) ==
  /\ search = NoSearch
  /\ search' = [fn |-> "searchVector", providerModel |-> providerModel,
                sourceFilter |-> sourceFilter, project |-> project,
                queryVec |-> queryVec, limit |-> limit, ready |-> ready]
  /\ result' \in searchVector(providerModel, queryVec, limit, ready, sourceFilter, project)
  /\ UNCHANGED <<syncVars, reindexVars>>

SearchKeywordCall(providerModel, ftsQuery, limit, sourceFilter, project) ==
  /\ search = NoSearch
  /\ search' = [fn |-> "searchKeyword", providerModel |-> providerModel,
                sourceFilter |-> sourceFilter, project |-> project,
                ftsQuery |-> ftsQuery, limit |-> limit]
  /\ result' \in searchKeyword(providerModel, ftsQuery, limit, sourceFilter, project)
  /\ UNCHANGED <<syncVars, reindexVars>>

SourceFilters == {SearchSources, {MEMORY}}
\* params.limit: negative, zero and positive
Limits == (0 - 1)..MaxLimit
Projects == {NoProject, "a", "b"}

NextSearch ==
  \/ \E m \in Models, sf \in SourceFilters, proj \in Projects : ListChunksCall(m, sf, proj)
  \/ \E m \in Models, qv \in QueryVecs, lim \in Limits, ready \in BOOLEAN,
        sf \in SourceFilters, proj \in Projects :
       SearchVectorCall(m, qv, lim, ready, sf, proj)
  \/ \E m \in Models, q \in FtsQueries, lim \in Limits,
        sf \in SourceFilters, proj \in Projects :
       SearchKeywordCall(m, q, lim, sf, proj)

\* a search reads the store and leaves it as it is: one call per behaviour
SpecSearch == InitSearch /\ [][NextSearch]_vars

(***************************************************************************)
(* The search functions over stores whose embeddings differ                *)
(***************************************************************************)
Embeddings == {<<1, 0>>, <<0, 1>>, OverflowEmbedding}

\* a chunk row with a given embedding column
ScoredChunkRow(k, m, e) == [ChunkRow(k, MEMORY, NULL, m) EXCEPT !.embedding = e]

\* up to MaxChunks chunk rows, each with its full-text row; the vector table holds
\* the rows of the embeddings it can store
ScoredStores == [1..MaxChunks -> {NULL} \cup (Models \X Embeddings)]

InitScores ==
  /\ disk = InitDisk
  /\ sessionStore = {}
  /\ model = "m1"
  /\ ftsAvailable = TRUE
  /\ vectorAvailable = TRUE
  /\ files = [sp \in SP |-> NoRec]
  /\ \E st \in ScoredStores :
       LET rows == {ScoredChunkRow(k, st[k][1], st[k][2]) : k \in {i \in 1..MaxChunks : st[i] # NULL}}
       IN /\ chunks = rows
          /\ vec = {VecRowOf(c) : c \in {r \in rows : r.embedding # OverflowEmbedding}}
          /\ fts = {FtsRowOf(c) : c \in rows}
  /\ pc = "idle" /\ cur = 1
  /\ needsFullReindex = FALSE /\ excludeSessionIds = {}
  /\ activePaths = {} /\ task = [p \in Paths |-> "none"]
  /\ calls = [p \in Paths |-> 0] /\ firstError = FALSE
  /\ record = [p \in Paths |-> NoRec]
  /\ staleRows = {} /\ staleLeft = {}
  /\ outcome = [s \in Sources |-> "none"] /\ threw = FALSE
  /\ syncs = 0 /\ edits = 0 /\ failures = 0
  /\ cleanPrev = FALSE /\ changed = {}
  /\ forcedCounts = NoForcedCounts
  /\ progress = NoProgress /\ progressLog = NoProgressLog
  /\ embeddingCache = {}
  /\ search = NoSearch /\ result = <<>>
  /\ mainDb = {} /\ tempDb = NoTemp /\ meta = NoMeta /\ providerDims = "d768"
  /\ run = IdleRun /\ query = NoQuery /\ kills = 0

SpecScores == InitScores /\ [][NextSearch]_vars

(***************************************************************************)
(* claude-session-files.ts: extractClaudeSessionText                       *)
(***************************************************************************)
MaxLines == 2        \* parsed records of one transcript

\* a string is the sequence of its pieces; "" is the empty sequence
Str(piece) == <<piece>>
EmptyStr == <<>>
Separator == <<"\n\n">>
NoText == <<"undefined", "undefined">>   \* the block has no text field (no string)

TextBlock(text) == [type |-> "text", text |-> text]
ToolUseBlock == [type |-> "tool_use", text |-> Str("input")]
ToolResultBlock == [type |-> "tool_result", text |-> NoText]
\* message.content arrays of a transcript
ContentArrays ==
  {<<>>,
   <<TextBlock(Str("b"))>>,
   <<TextBlock(Str("b")), TextBlock(Str("c"))>>,
   <<TextBlock(Str("b")), ToolUseBlock>>,
   <<ToolUseBlock, TextBlock(EmptyStr)>>,
   <<ToolResultBlock>>,
   <<TextBlock(NoText)>>}
\* message.content: missing, a string, or an array of blocks
NoContent == [kind |-> "none", text |-> EmptyStr, blocks |-> <<>>]
StringContent(s) == [kind |-> "string", text |-> s, blocks |-> <<>>]
ArrayContent(b) == [kind |-> "array", text |-> EmptyStr, blocks |-> b]
MessageContents ==
  {NoContent}
    \cup {StringContent(s) : s \in {EmptyStr, Str("a")}}
    \cup {ArrayContent(b) : b \in ContentArrays}
LineTypes == {"user", "assistant", "summary"}
JsonlLines == {[type |-> ty, content |-> c] : ty \in LineTypes, c \in MessageContents}

\* parts.join("\n\n")
RECURSIVE Join(_)
Join(parts) ==
  IF parts = <<>> THEN EmptyStr
  ELSE IF Len(parts) = 1 THEN parts[1]
  ELSE parts[1] \o Separator \o Join(Tail(parts))

\* faulty variant: every block with a text is taken
IsTextBlockAnyType(block) == block.text # NoText
\* block.type === "text" && typeof block.text === "string"
IsTextBlock(block) == block.type = "text" /\ block.text # NoText

\* for (const block of content) if (...) parts.push(block.text)
RECURSIVE BlockParts(_)
BlockParts(blocks) ==
  IF blocks = <<>> THEN <<>>
  ELSE (IF IsTextBlock(Head(blocks)) THEN <<Head(blocks).text>> ELSE <<>>)
         \o BlockParts(Tail(blocks))

\* line.type !== "user" && line.type !== "assistant"
IsMessageLine(line) == line.type = "user" \/ line.type = "assistant"

\* !content: the content is missing or is the empty string
IsFalsy(content) ==
  content.kind = "none" \/ (content.kind = "string" /\ content.text = EmptyStr)

\* what one record pushes to parts
LineParts(line) ==
  IF ~IsMessageLine(line) THEN <<>>
  ELSE IF IsFalsy(line.content) THEN <<>>
  ELSE IF line.content.kind = "string" THEN <<line.content.text>>
  ELSE BlockParts(line.content.blocks)

RECURSIVE AllParts(_)
AllParts(lines) ==
  IF lines = <<>> THEN <<>> ELSE LineParts(Head(lines)) \o AllParts(Tail(lines))

extractClaudeSessionText(lines) == Join(AllParts(lines))

ExtractCall(lines) ==
  /\ search' = [fn |-> "extractClaudeSessionText", lines |-> lines]
  /\ result' = extractClaudeSessionText(lines)
  /\ UNCHANGED <<syncVars, reindexVars>>

\* the function is pure: one call per behaviour
NextExtract ==
  /\ search = NoSearch
  /\ \E n \in 0..MaxLines : \E lines \in [1..n -> JsonlLines] : ExtractCall(lines)

SpecExtract == Init /\ [][NextExtract]_vars

(***************************************************************************)
(* manager.search: merging the vector and the keyword results              *)
(***************************************************************************)
MaxMergeIds == 2     \* chunk ids that occur in the two result lists
MaxResults == 2      \* largest maxResults of a query

\* scores are in hundredths; weights in percent, so a merged score is in 1/10000
DefaultVectorWeight == 70
DefaultTextWeight == 30
ScoreVals == {50, 100}
Weightings == {<<DefaultVectorWeight, DefaultTextWeight>>, <<50, 50>>}
MinScores == {0, 3500}

\* a result list of one path: rows with distinct ids, in any order
ResultLists ==
  UNION {{l \in [1..n -> [id : 1..MaxMergeIds, score : ScoreVals]] :
            \A i, j \in 1..n : i # j => l[i].id # l[j].id} : n \in 0..MaxMergeIds}

ScoreIn(list, id) ==
  IF \E i \in DOMAIN list : list[i].id = id
    THEN list[CHOOSE i \in DOMAIN list : list[i].id = id].score
    ELSE 0

\* faulty variant: the keyword score is dropped
HybridScoreVectorOnly(vectorScore, textScore, vectorWeight, textWeight) ==
  vectorWeight * vectorScore
\* vectorWeight * vectorScore + textWeight * textScore
HybridScore(vectorScore, textScore, vectorWeight, textWeight) ==
  vectorWeight * vectorScore + textWeight * textScore

\* position at which an id enters the map: vector rows first, then new keyword rows
FirstSeen(vector, keyword, id) ==
  IF \E i \in DOMAIN vector : vector[i].id = id
    THEN CHOOSE i \in DOMAIN vector : vector[i].id = id
    ELSE Len(vector) + (CHOOSE i \in DOMAIN keyword : keyword[i].id = id)

\* one entry per chunk id of either list
mergeHybridResults(vector, keyword, vectorWeight, textWeight) ==
  {[id |-> id,
    score |-> HybridScore(ScoreIn(vector, id), ScoreIn(keyword, id), vectorWeight, textWeight),
    seen |-> FirstSeen(vector, keyword, id)]
     : id \in {vector[i].id : i \in DOMAIN vector} \cup {keyword[i].id : i \in DOMAIN keyword}}

\* sort by score, highest first; the sort is stable, so entries of equal score stay in
\* the order in which they entered the map
SortKey(entry) == (0 - entry.score) * (2 * MaxMergeIds + 1) + entry.seen

\* the possible return values of the query: filter by minScore, sort, slice
HybridOutcomes(vector, keyword, vectorWeight, textWeight, minScore, maxResults) ==
  LET merged == mergeHybridResults(vector, keyword, vectorWeight, textWeight)
      kept == {e \in merged : e.score >= minScore}
  IN {[i \in DOMAIN s |-> [id |-> s[i].id, score |-> s[i].score]]
        : s \in OrderedTop(kept, [e \in kept |-> SortKey(e)], maxResults)}

MergeCall(vector, keyword, weights, minScore, maxResults) ==
  /\ search' = [fn |-> "mergeHybridResults", vector |-> vector, keyword |-> keyword,
                vectorWeight |-> weights[1], textWeight |-> weights[2],
                minScore |-> minScore, maxResults |-> maxResults]
  /\ result' \in HybridOutcomes(vector, keyword, weights[1], weights[2], minScore, maxResults)
  /\ UNCHANGED <<syncVars, reindexVars>>

\* merging is pure: one call per behaviour
NextMerge ==
  /\ search = NoSearch
  /\ \E vector \in ResultLists, keyword \in ResultLists, weights \in Weightings,
        minScore \in MinScores, maxResults \in 1..MaxResults :
       MergeCall(vector, keyword, weights, minScore, maxResults)

SpecMerge == Init /\ [][NextMerge]_vars

(***************************************************************************)
(* The sync controller: reindex mode, out-of-place full reindex, sync      *)
(* metadata, and queries that read the store while a pass runs             *)
(***************************************************************************)
MaxKills == 2          \* passes that are killed or fail with a storage error

\* the corpus: one file of each source
CorpusFiles == {<<MEMORY, "MEMORY.md">>, <<SESSIONS, "session.jsonl">>}
Dims == {"d768", "d1536"}
SchemaVersions == {"behind", "current"}
Interruptions == {"killed", "storage error"}

BuildRow(file, dims) == [file |-> file, dims |-> dims]
IndexedFiles(db) == {r.file : r \in db}
FullDataset(dims) == {BuildRow(f, dims) : f \in CorpusFiles}
MetaOf(dims) == [schemaVersion |-> "current", dims |-> dims]
Metas == {NoMeta} \cup [schemaVersion : SchemaVersions, dims : Dims \cup {"none"}]

\* the trigger as it was before the fix: a missing vectorDims forces the reindex
NeedsFullReindexOnMissingDims(force, storedMeta, activeDims, dbIsEmpty) ==
  \/ force
  \/ storedMeta.schemaVersion = "behind"
  \/ storedMeta.dims # activeDims

NeedsFullReindex(force, storedMeta, activeDims, dbIsEmpty) ==
  \/ force
  \/ storedMeta.schemaVersion = "behind"
  \/ storedMeta.dims # "none" /\ storedMeta.dims # activeDims /\ ~dbIsEmpty

\* without the emptiness detection only the dirty sources are synced
SyncAllNever(dbIsEmpty) == FALSE

SyncAll(dbIsEmpty) == dbIsEmpty

\* orphaned temporary files that are left in place
DiscardOrphansNever(temp) == temp

DiscardOrphans(temp) == NoTemp

OpenTemp(temp) == IF temp.exists THEN temp ELSE [exists |-> TRUE, rows |-> {}]

\* a swap that does not wait for the readers
SwapMayRunAnytime(q) == TRUE

SwapMayRun(q) == q.phase = "none"

\* metadata written while files of the pass are still to be written
MayWriteMetaEarly(r) == TRUE

MayWriteMeta(r) == r.done = r.targets

PassRunning == run.last = "running"

InitReindex ==
  /\ disk = InitDisk
  /\ sessionStore = {}
  /\ model = "m1"
  /\ ftsAvailable = TRUE
  /\ vectorAvailable = TRUE
  /\ files = [sp \in SP |-> NoRec]
  /\ chunks = {} /\ vec = {} /\ fts = {}
  /\ pc = "idle" /\ cur = 1
  /\ needsFullReindex = FALSE /\ excludeSessionIds = {}
  /\ activePaths = {} /\ task = [p \in Paths |-> "none"]
  /\ calls = [p \in Paths |-> 0] /\ firstError = FALSE
  /\ record = [p \in Paths |-> NoRec]
  /\ staleRows = {} /\ staleLeft = {}
  /\ outcome = [s \in Sources |-> "none"] /\ threw = FALSE
  /\ syncs = 0 /\ edits = 0 /\ failures = 0
  /\ cleanPrev = FALSE /\ changed = {}
  /\ forcedCounts = NoForcedCounts
  /\ progress = NoProgress /\ progressLog = NoProgressLog
  /\ embeddingCache = {}
  /\ search = NoSearch /\ result = <<>>
  /\ mainDb \in {{}, FullDataset("d768")}
  /\ tempDb = NoTemp
  /\ meta \in Metas
  /\ providerDims \in Dims
  /\ run = IdleRun /\ query = NoQuery /\ kills = 0

\* runSync: clean orphaned temp files, then decide the mode of the pass
SyncStart(force, dirty) ==
  /\ ~PassRunning
  /\ LET dbIsEmpty == mainDb = {}
         full == NeedsFullReindex(force, meta, providerDims, dbIsEmpty)
         syncAll == ~full /\ SyncAll(dbIsEmpty)
         cleaned == DiscardOrphans(tempDb)
     IN /\ tempDb' = IF full THEN OpenTemp(cleaned) ELSE cleaned
        /\ run' = [mode |-> IF full THEN "reindex" ELSE "incremental",
                   force |-> force,
                   syncAll |-> syncAll,
                   targets |-> IF full \/ syncAll THEN CorpusFiles
                               ELSE {f \in CorpusFiles : f[1] \in dirty},
                   done |-> {},
                   dims |-> providerDims,
                   beforeDb |-> mainDb,
                   beforeMeta |-> meta,
                   last |-> "running"]
  /\ UNCHANGED <<syncVars, searchVars, mainDb, meta, providerDims, query, kills>>

\* runSafeReindex: one file indexed into the temporary database
IndexIntoTemp(f) ==
  /\ PassRunning /\ run.mode = "reindex"
  /\ f \in run.targets \ run.done
  /\ tempDb' = [tempDb EXCEPT !.rows = @ \cup {BuildRow(f, providerDims)}]
  /\ run' = [run EXCEPT !.done = @ \cup {f}]
  /\ UNCHANGED <<syncVars, searchVars, mainDb, meta, providerDims, query, kills>>

\* runSafeReindex: the temporary database, with its metadata, replaces the main one
SwapTemp ==
  /\ PassRunning /\ run.mode = "reindex"
  /\ run.done = run.targets
  /\ SwapMayRun(query)
  /\ mainDb' = tempDb.rows
  /\ meta' = MetaOf(providerDims)
  /\ tempDb' = NoTemp
  /\ run' = [run EXCEPT !.last = "swapped"]
  /\ UNCHANGED <<syncVars, searchVars, providerDims, query, kills>>

\* incremental sync: one file indexed and committed to the main database
IndexIncremental(f) ==
  /\ PassRunning /\ run.mode = "incremental"
  /\ f \in run.targets \ run.done
  /\ mainDb' = {r \in mainDb : r.file # f} \cup {BuildRow(f, providerDims)}
  /\ run' = [run EXCEPT !.done = @ \cup {f}]
  /\ UNCHANGED <<syncVars, searchVars, tempDb, meta, providerDims, query, kills>>

\* incremental sync: the metadata is written after the pass
FinishIncremental ==
  /\ PassRunning /\ run.mode = "incremental"
  /\ MayWriteMeta(run)
  /\ meta' = MetaOf(providerDims)
  /\ run' = [run EXCEPT !.last = "completed"]
  /\ UNCHANGED <<syncVars, searchVars, mainDb, tempDb, providerDims, query, kills>>

\* the process is killed, or the pass fails with a storage error
Interrupt(kind) ==
  /\ PassRunning
  /\ kills < MaxKills
  /\ kills' = kills + 1
  /\ run' = [run EXCEPT !.last = kind]
  /\ UNCHANGED <<syncVars, searchVars, mainDb, tempDb, meta, providerDims, query>>

\* the configuration switches to a provider of another dimensionality
ChangeProvider(dims) ==
  /\ ~PassRunning
  /\ dims # providerDims
  /\ providerDims' = dims
  /\ UNCHANGED <<syncVars, searchVars, mainDb, tempDb, meta, run, query, kills>>

\* a query reads the main database twice: the vector search, then the keyword search
QueryVector ==
  /\ query.phase = "none"
  /\ query' = [phase |-> "vector", reads |-> <<mainDb>>]
  /\ UNCHANGED <<syncVars, searchVars, mainDb, tempDb, meta, providerDims, run, kills>>

QueryKeyword ==
  /\ query.phase = "vector"
  /\ query' = [phase |-> "keyword", reads |-> Append(query.reads, mainDb)]
  /\ UNCHANGED <<syncVars, searchVars, mainDb, tempDb, meta, providerDims, run, kills>>

QueryReturn ==
  /\ query.phase = "keyword"
  /\ query' = NoQuery
  /\ UNCHANGED <<syncVars, searchVars, mainDb, tempDb, meta, providerDims, run, kills>>

NextReindex ==
  \/ \E force \in BOOLEAN, dirty \in SUBSET SearchSources : SyncStart(force, dirty)
  \/ \E f \in CorpusFiles : IndexIntoTemp(f)
  \/ SwapTemp
  \/ \E f \in CorpusFiles : IndexIncremental(f)
  \/ FinishIncremental
  \/ \E kind \in Interruptions : Interrupt(kind)
  \/ \E dims \in Dims : ChangeProvider(dims)
  \/ QueryVector
  \/ QueryKeyword
  \/ QueryReturn

SpecReindex == InitReindex /\ [][NextReindex]_vars

(***************************************************************************)
(* Repeated non-forced passes over an unchanged corpus with one provider   *)
(***************************************************************************)
\* any store: each file of the corpus indexed or not, under either dimensionality
Stores ==
  {db \in SUBSET [file : CorpusFiles, dims : Dims] :
     \A r1, r2 \in db : r1.file = r2.file => r1 = r2}

InitConverge ==
  /\ disk = InitDisk
  /\ sessionStore = {}
  /\ model = "m1"
  /\ ftsAvailable = TRUE
  /\ vectorAvailable = TRUE
  /\ files = [sp \in SP |-> NoRec]
  /\ chunks = {} /\ vec = {} /\ fts = {}
  /\ pc = "idle" /\ cur = 1
  /\ needsFullReindex = FALSE /\ excludeSessionIds = {}
  /\ activePaths = {} /\ task = [p \in Paths |-> "none"]
  /\ calls = [p \in Paths |-> 0] /\ firstError = FALSE
  /\ record = [p \in Paths |-> NoRec]
  /\ staleRows = {} /\ staleLeft = {}
  /\ outcome = [s \in Sources |-> "none"] /\ threw = FALSE
  /\ syncs = 0 /\ edits = 0 /\ failures = 0
  /\ cleanPrev = FALSE /\ changed = {}
  /\ forcedCounts = NoForcedCounts
  /\ progress = NoProgress /\ progressLog = NoProgressLog
  /\ embeddingCache = {}
  /\ search = NoSearch /\ result = <<>>
  /\ mainDb \in Stores
  /\ tempDb = NoTemp
  /\ meta \in Metas
  /\ providerDims \in Dims
  /\ run = IdleRun /\ query = NoQuery /\ kills = 0

\* a sync() call that is not forced and walks every source
SyncUnforced == SyncStart(FALSE, SearchSources)

NextConverge ==
  \/ SyncUnforced
  \/ \E f \in CorpusFiles : IndexIntoTemp(f)
  \/ SwapTemp
  \/ \E f \in CorpusFiles : IndexIncremental(f)
  \/ FinishIncremental
  \/ \E kind \in Interruptions : Interrupt(kind)

\* sync() is called again and again, and the provider answers every request: a
\* per-file write, the swap and the end of a pass are not postponed for ever; a
\* kill is never owed
SpecConverge ==
  /\ InitConverge /\ [][NextConverge]_vars
  /\ WF_vars(SyncUnforced)
  /\ WF_vars(\E f \in CorpusFiles : IndexIntoTemp(f))
  /\ WF_vars(SwapTemp)
  /\ WF_vars(\E f \in CorpusFiles : IndexIncremental(f))
  /\ WF_vars(FinishIncremental)

(***************************************************************************)
(* The adapters' functions: buildClaudeSessionEntry, buildScribeFileEntry, *)
(* extractProjectSlug, loadMoltbotClaudeSessionIds, listClaudeSessionFiles *)
(***************************************************************************)
MaxRawLines == 2     \* lines of one session file

\* pieces that String.prototype.trim removes
WhitespacePieces == {" ", "\n", "\n\n"}
\* !s.trim()
IsBlankStr(s) == \A i \in 1..Len(s) : s[i] \in WhitespacePieces

\* createHash("sha256").update(content).digest("hex"), of a string of pieces
Sha256Of(content) == <<"sha256">> \o content

\* a line of a session file: what raw.split("\n") yields and what JSON.parse makes of it
NoSessionId == "undefined"
BlankLine == [kind |-> "blank", type |-> "undefined", content |-> NoContent,
              sessionId |-> NoSessionId]
UnparseableLine == [kind |-> "unparseable", type |-> "undefined", content |-> NoContent,
                    sessionId |-> NoSessionId]
\* the line `null`: JSON.parse returns null
NullLine == [kind |-> "null", type |-> "undefined", content |-> NoContent,
             sessionId |-> NoSessionId]
\* a line such as `42`: JSON.parse returns a value without fields
PrimitiveLine == [kind |-> "primitive", type |-> "undefined", content |-> NoContent,
                  sessionId |-> NoSessionId]
RecordLine(type, content, sessionId) ==
  [kind |-> "record", type |-> type, content |-> content, sessionId |-> sessionId]
RawContents ==
  {NoContent, StringContent(Str("a")), StringContent(Str(" ")),
   ArrayContent(<<TextBlock(Str("b"))>>)}
RawLines ==
  {BlankLine, UnparseableLine, NullLine, PrimitiveLine}
    \cup {RecordLine(ty, c, sid) : ty \in {"user", "summary"}, c \in RawContents,
                                   sid \in {NoSessionId, "", "s1", "s2"}}

\* fs.readFile: the read fails, or yields the lines of the file
UnreadableFile == [readable |-> FALSE, lines |-> <<>>]
ReadableFile(lines) == [readable |-> TRUE, lines |-> lines]

\* a file name: what stands before its last extension, the extension, and the whole
\* (full = stem followed by ext)
FileName(stem, ext, full) == [stem |-> stem, ext |-> ext, full |-> full]
NoFileName == FileName("", "", "")
SessionFile == FileName("abc123", ".jsonl", "abc123.jsonl")
FileNames ==
  {SessionFile, FileName("notes", ".txt", "notes.txt"), FileName("", ".jsonl", ".jsonl")}

\* faulty variant: the file name with its extension
BasenameWhole(name, ext) == name.full
\* path.basename(absPath, ext): the extension is removed when the name ends with it
\* and is more than it
Basename(name, ext) == IF name.ext = ext /\ name.stem # "" THEN name.stem ELSE name.full

\* a session path: the name of the parent directory, in pieces, and the file's name
SessionPath(dir, base) == [dir |-> dir, base |-> base]
Marker == "projects-"

\* variant: the rightmost marker is taken
LastMatch(dirName) ==
  LET at == {i \in 1..(Len(dirName) - 1) : dirName[i] = Marker}
  IN IF at = {} THEN 0 ELSE CHOOSE i \in at : \A j \in at : i >= j

\* position of the leftmost match of /projects-(.+)$/ in a directory name, 0 if none
FirstMatch(dirName) ==
  LET at == {i \in 1..(Len(dirName) - 1) : dirName[i] = Marker}
  IN IF at = {} THEN 0 ELSE CHOOSE i \in at : \A j \in at : i <= j

\* match?.[1] ?? dirName
extractProjectSlug(sessionPath) ==
  LET dirName == sessionPath.dir
      m == FirstMatch(dirName)
  IN IF m = 0 THEN dirName ELSE SubSeq(dirName, m + 1, Len(dirName))

\* what an adapter function returns: an entry, null, or a rejection
AdapterNull == [status |-> "null", path |-> SessionPath(<<>>, NoFileName), content |-> EmptyStr,
                hash |-> <<>>, project |-> <<>>, claudeSessionId |-> ""]
AdapterThrew == [AdapterNull EXCEPT !.status = "threw"]
\* faulty variant: the session id is hashed with the content
AdapterEntryHashesId(path, content, project, sessionId) ==
  [status |-> "entry", path |-> path, content |-> content,
   hash |-> Sha256Of(content \o <<sessionId>>), project |-> project,
   claudeSessionId |-> sessionId]
\* { path: absPath, content, hash, project, claudeSessionId }
AdapterEntry(path, content, project, sessionId) ==
  [status |-> "entry", path |-> path, content |-> content, hash |-> Sha256Of(content),
   project |-> project, claudeSessionId |-> sessionId]

\* JSON.parse(lineStr) returned: the line was pushed to lines
IsParsed(line) == line.kind \in {"record", "null", "primitive"}
\* if (!lineStr.trim()) continue
IsBlankLine(line) == line.kind = "blank"

\* if (!sessionId && parsed.sessionId) sessionId = parsed.sessionId
RECURSIVE FirstSessionId(_)
FirstSessionId(lines) ==
  IF lines = <<>> THEN NoSessionId
  ELSE IF Head(lines).kind = "record" /\ Head(lines).sessionId \notin {NoSessionId, ""}
       THEN Head(lines).sessionId
  ELSE FirstSessionId(Tail(lines))

\* the loop over raw.split("\n"): the lines that JSON.parse accepted
ParsedLines(lines) == SelectSeq(lines, IsParsed)

buildClaudeSessionEntry(absPath, file) ==
  IF ~file.readable THEN AdapterNull
  ELSE IF \A i \in 1..Len(file.lines) : IsBlankLine(file.lines[i]) THEN AdapterNull
  ELSE LET lines == ParsedLines(file.lines)
           sessionId == FirstSessionId(lines)
       IN \* extractClaudeSessionText reads line.type of every parsed line
          IF \E i \in 1..Len(lines) : lines[i].kind = "null" THEN AdapterThrew
          ELSE LET content == extractClaudeSessionText(lines)
               IN IF content = EmptyStr THEN AdapterNull
                  ELSE AdapterEntry(absPath, content, extractProjectSlug(absPath),
                                    IF sessionId # NoSessionId THEN sessionId
                                    ELSE Basename(absPath.base, ".jsonl"))

\* the content of a markdown file: the read fails, or yields a string
ScribeFiles ==
  {[readable |-> FALSE, content |-> EmptyStr]}
    \cup {[readable |-> TRUE, content |-> c] :
            c \in {EmptyStr, Str(" "), <<" ", "\n">>, Str("a"), <<" ", "a", "\n">>}}
ScribeProjects == {Str("mine"), Str("moltbot")}

buildScribeFileEntry(absPath, project, file) ==
  IF ~file.readable THEN AdapterNull
  ELSE IF IsBlankStr(file.content) THEN AdapterNull
  ELSE AdapterEntry(absPath, file.content, project, "")

BuildPaths ==
  {SessionPath(<<"-home-ben-", Marker, "mine">>, SessionFile)}
    \cup {SessionPath(<<"random-dir">>, name) : name \in FileNames}

BuildClaudeCall(absPath, file) ==
  /\ search' = [fn |-> "buildClaudeSessionEntry", absPath |-> absPath, file |-> file]
  /\ result' = buildClaudeSessionEntry(absPath, file)
  /\ UNCHANGED <<syncVars, reindexVars>>

BuildScribeCall(absPath, project, file) ==
  /\ search' = [fn |-> "buildScribeFileEntry", absPath |-> absPath, project |-> project,
                file |-> file]
  /\ result' = buildScribeFileEntry(absPath, project, file)
  /\ UNCHANGED <<syncVars, reindexVars>>

MaxDirPieces == 3    \* pieces of a parent directory's name
MaxRecords == 2      \* records of one session store
MaxProjectDirs == 2  \* entries of the base directory

\* names of the parent directory of a session file
DirPieces == {Marker, "home-", "mine"}
DirNames == UNION {[1..n -> DirPieces] : n \in 1..MaxDirPieces}

SlugCall(sessionPath) ==
  /\ search' = [fn |-> "extractProjectSlug", sessionPath |-> sessionPath]
  /\ result' = extractProjectSlug(sessionPath)
  /\ UNCHANGED <<syncVars, reindexVars>>

\* JavaScript values of the session store: undefined, a number, "", or an id
Undefined == "undefined"
ANumber == "number"
IdValues == {Undefined, ANumber, "", "s1", "s2"}
\* typeof v === "string" && v
IsNonEmptyString(v) == v \notin {Undefined, ANumber, ""}

\* rec.cliSessionIds: missing, null, not an object, or a map of CLI names to values
CliMissing == [kind |-> "undefined", claude |-> Undefined, other |-> Undefined]
CliNull == [CliMissing EXCEPT !.kind = "null"]
CliString == [CliMissing EXCEPT !.kind = "string"]
CliMap(claude, other) == [kind |-> "object", claude |-> claude, other |-> other]
CliValues ==
  {CliMissing, CliNull, CliString}
    \cup {CliMap(c, o) : c \in IdValues, o \in {Undefined, "s2"}}

\* an entry of the store: null, not an object, or a record
NullEntry == [kind |-> "null", cliSessionIds |-> CliMissing, claudeCliSessionId |-> Undefined]
StringEntry == [NullEntry EXCEPT !.kind = "string"]
StoreRecord(cli, flat) ==
  [kind |-> "object", cliSessionIds |-> cli, claudeCliSessionId |-> flat]
StoreEntries ==
  {NullEntry, StringEntry} \cup {StoreRecord(c, f) : c \in CliValues, f \in IdValues}

\* sessions.json: absent, not JSON, or JSON of some top-level type
StoreFile(kind, entries) == [kind |-> kind, entries |-> entries]
BadStoreKinds == {"absent", "malformed", "array", "null", "number", "string"}

\* faulty variant: the ids of every CLI are taken
IdsOfEntryAnyCli(entry) ==
  IF entry.kind # "object" THEN {}
  ELSE (IF entry.cliSessionIds.kind = "object"
        THEN {v \in {entry.cliSessionIds.claude, entry.cliSessionIds.other} :
                IsNonEmptyString(v)}
        ELSE {})
       \cup (IF IsNonEmptyString(entry.claudeCliSessionId)
             THEN {entry.claudeCliSessionId} ELSE {})

\* what one pass of the loop over Object.values(store) adds to sessionIds
IdsOfEntry(entry) ==
  IF entry.kind # "object" THEN {}
  ELSE (IF entry.cliSessionIds.kind = "object"
           /\ IsNonEmptyString(entry.cliSessionIds.claude)
        THEN {entry.cliSessionIds.claude} ELSE {})
       \cup (IF IsNonEmptyString(entry.claudeCliSessionId)
             THEN {entry.claudeCliSessionId} ELSE {})

\* faulty variant: a store that is not a map of records makes the call reject
StoreGuardThrows(store) == IF store.kind = "object" THEN "ok" ELSE "threw"

\* readFile, JSON.parse and the test of the top-level value, inside try {} catch {}
StoreGuard(store) == IF store.kind = "object" THEN "ok" ELSE "empty"

IdsResult(status, ids) == [status |-> status, ids |-> ids]

loadMoltbotClaudeSessionIds(store) ==
  IF StoreGuard(store) = "ok"
  THEN IdsResult("returned", UNION {IdsOfEntry(store.entries[i]) : i \in 1..Len(store.entries)})
  ELSE IdsResult(IF StoreGuard(store) = "empty" THEN "returned" ELSE "threw", {})

LoadIdsCall(store) ==
  /\ search' = [fn |-> "loadMoltbotClaudeSessionIds", store |-> store]
  /\ result' = loadMoltbotClaudeSessionIds(store)
  /\ UNCHANGED <<syncVars, reindexVars>>

\* an entry of a project directory
DirEntry(name, type) == [name |-> name, type |-> type]
\* file.name.endsWith(".jsonl"), of a name in pieces
EndsWithJsonl(name) == name # <<>> /\ name[Len(name)] = ".jsonl"
ProjectDirEntries ==
  {DirEntry(<<"abc123", ".jsonl">>, "file"), DirEntry(<<"old", ".jsonl", ".bak">>, "file"),
   DirEntry(<<"dir", ".jsonl">>, "directory"), DirEntry(<<"link", ".jsonl">>, "symlink")}
\* an entry of the base directory: a file, or a directory that can or cannot be read
BaseFile(name) == [name |-> name, type |-> "file", readable |-> TRUE, entries |-> {}]
ProjectDir(name, readable, entries) ==
  [name |-> name, type |-> "directory", readable |-> readable, entries |-> entries]
BaseEntries(name) ==
  {BaseFile(name)}
    \cup {ProjectDir(name, FALSE, {DirEntry(<<"abc123", ".jsonl">>, "file")})}
    \cup {ProjectDir(name, TRUE, es) : es \in SUBSET ProjectDirEntries}
BaseNames == {"proj1", "proj2", "proj3"}
\* the base directory: missing, unreadable, or its entries by name
BaseDir(state, entries) == [state |-> state, entries |-> entries]

\* faulty variant: a project directory that cannot be read ends the listing
ReadProjectDirStrict(entry) ==
  IF entry.readable THEN [ok |-> TRUE, entries |-> entry.entries]
  ELSE [ok |-> FALSE, entries |-> {}]

\* fs.readdir(projectPath) inside try {} catch {}: an unreadable directory is skipped
ReadProjectDir(entry) == [ok |-> TRUE, entries |-> IF entry.readable THEN entry.entries ELSE {}]

ListResult(status, paths) == [status |-> status, paths |-> paths]

listClaudeSessionFiles(base) ==
  IF base.state # "readable" THEN ListResult("returned", {})
  ELSE LET dirs == {e \in base.entries : e.type = "directory"}
       IN IF \E e \in dirs : ~ReadProjectDir(e).ok THEN ListResult("returned", {})
          ELSE ListResult("returned",
                 UNION {{<<e.name, f.name>> :
                          f \in {g \in ReadProjectDir(e).entries :
                                   g.type = "file" /\ EndsWithJsonl(g.name)}} : e \in dirs})

ListCall(base) ==
  /\ search' = [fn |-> "listClaudeSessionFiles", base |-> base]
  /\ result' = listClaudeSessionFiles(base)
  /\ UNCHANGED <<syncVars, reindexVars>>

\* the functions are pure: one call per behaviour
BuildClaude ==
  /\ search = NoSearch
  /\ \E absPath \in BuildPaths :
       \/ BuildClaudeCall(absPath, UnreadableFile)
       \/ \E n \in 0..MaxRawLines : \E lines \in [1..n -> RawLines] :
            BuildClaudeCall(absPath, ReadableFile(lines))

BuildScribe ==
  /\ search = NoSearch
  /\ \E absPath \in BuildPaths, project \in ScribeProjects, file \in ScribeFiles :
       BuildScribeCall(absPath, project, file)

Slug ==
  /\ search = NoSearch
  /\ \E dir \in DirNames : SlugCall(SessionPath(dir, SessionFile))

LoadIds ==
  /\ search = NoSearch
  /\ \/ \E kind \in BadStoreKinds : LoadIdsCall(StoreFile(kind, <<>>))
     \/ \E n \in 0..MaxRecords : \E entries \in [1..n -> StoreEntries] :
          LoadIdsCall(StoreFile("object", entries))

ListFilesOfBase ==
  /\ search = NoSearch
  /\ \/ \E state \in {"missing", "unreadable"} : ListCall(BaseDir(state, {}))
     \/ \E names \in SUBSET BaseNames :
          /\ Cardinality(names) <= MaxProjectDirs
          /\ \E choice \in [names -> UNION {BaseEntries(nm) : nm \in BaseNames}] :
               /\ \A nm \in names : choice[nm].name = nm
               /\ ListCall(BaseDir("readable", {choice[nm] : nm \in names}))

NextAdapter ==
  \/ BuildClaude
  \/ BuildScribe
  \/ Slug
  \/ LoadIds
  \/ ListFilesOfBase

SpecAdapter == Init /\ [][NextAdapter]_vars

(***************************************************************************)
(* Vocabulary of the properties                                            *)
(***************************************************************************)
Entry(s, p) == BuildEntry(disk, s, p)
DeletePhases == {"delFiles", "delVec", "delChunks", "delFts"}
InPass == pc \in {"tasks", "passEnd"} \cup DeletePhases
PassCompleted == pc = "passEnd" /\ outcome[Source] = "ok"
Decided(p) == task[p] \in {"indexing", "done", "failed"}
\* the stored hash of (path, source) when the task of p took its decision
StoredHash(p) == IF ReadsRecord(Source, p) THEN record[p] ELSE files[<<Source, p>>]
ChunkRows(s, p) == {c \in chunks : c.source = s /\ c.path = p}
VecRows(s, p) == {v \in vec : v.id[1] = s /\ v.id[2] = p}
FtsRows(s, p) == {f \in fts : f.source = s /\ f.path = p}
FileCount(s) == Cardinality({p \in PathsOf(s) : files[<<s, p>>] # NoRec})
ChunkCount(s) == Cardinality({c \in chunks : c.source = s})

(***************************************************************************)
(* C1  change detection of one task                                        *)
(***************************************************************************)
\* C1 as stated: in a non-forced pass, for every listed file that yields an entry,
\* indexFile is not called when the stored hash equals the entry's hash and is
\* called exactly once when no record is stored or the stored hash differs.
C1_AsStated ==
  (InPass /\ ~needsFullReindex) =>
    \A p \in activePaths :
      (Decided(p) /\ ~Entry(Source, p).none) =>
        calls[p] = (IF StoredHash(p) = Entry(Source, p).hash THEN 0 ELSE 1)

\* C1 amended: the same, for every listed file that yields an entry whose session id
\* is not in excludeSessionIds (an excluded session is never passed to indexFile).
C1_ChangeDetection ==
  (InPass /\ ~needsFullReindex) =>
    \A p \in activePaths :
      (Decided(p) /\ ~Entry(Source, p).none
         /\ ~IsExcluded(Source, Entry(Source, p), excludeSessionIds)) =>
        calls[p] = (IF StoredHash(p) = Entry(Source, p).hash THEN 0 ELSE 1)

\* a non-forced pass that skipped one file with an equal stored hash and called
\* indexFile for another whose stored hash differed
C1_Witness ==
  /\ InPass /\ ~needsFullReindex
  /\ \E p, q \in activePaths :
       /\ Decided(p) /\ ~Entry(Source, p).none /\ record[p] = Entry(Source, p).hash
       /\ calls[p] = 0
       /\ Decided(q) /\ ~Entry(Source, q).none /\ record[q] \notin {NoRec, Entry(Source, q).hash}
       /\ calls[q] = 1

(***************************************************************************)
(* C2  idempotence                                                         *)
(***************************************************************************)
\* C2: after a sync() call that completed every pass, a second non-forced call over
\* an unchanged corpus calls indexFile for no file and leaves the file count and the
\* chunk count of every source as they were.
C2_Idempotence ==
  [][(pc # "idle" /\ ~needsFullReindex /\ cleanPrev /\ changed = {}) =>
       /\ \A p \in Paths : calls'[p] = 0
       /\ \A s \in Sources : FileCount(s)' = FileCount(s) /\ ChunkCount(s)' = ChunkCount(s)]_vars

\* the second call has finished both passes over an indexed, unchanged corpus
C2_Witness ==
  /\ pc = "passEnd" /\ cur = Len(SyncOrder) /\ outcome = [s \in Sources |-> "ok"]
  /\ ~needsFullReindex /\ cleanPrev /\ changed = {} /\ syncs >= 1
  /\ \A s \in Sources : FileCount(s) > 0 /\ ChunkCount(s) > 0

(***************************************************************************)
(* C3  deduplication against this system's own sessions                    *)
(***************************************************************************)
\* C3: in a pass of syncClaudeSessionFiles, forced or not, a listed file whose
\* claudeSessionId is in excludeSessionIds is never passed to indexFile, and a listed
\* file whose id is not in the set and that needs indexing is passed to it.
C3_Dedup ==
  (InPass /\ Source = CLAUDE) =>
    \A p \in activePaths :
      ~Entry(CLAUDE, p).none =>
        /\ Entry(CLAUDE, p).claudeSessionId \in excludeSessionIds => calls[p] = 0
        /\ (Entry(CLAUDE, p).claudeSessionId \notin excludeSessionIds /\ Decided(p)
              /\ NeedsIndex(needsFullReindex, record[p], Entry(CLAUDE, p))) => calls[p] = 1

\* a completed pass that skipped an excluded session and indexed another one
C3_Witness ==
  /\ PassCompleted /\ Source = CLAUDE
  /\ \E p, q \in activePaths :
       /\ ~Entry(CLAUDE, p).none /\ Entry(CLAUDE, p).claudeSessionId \in excludeSessionIds
       /\ calls[p] = 0 /\ files[<<CLAUDE, p>>] = NoRec
       /\ ~Entry(CLAUDE, q).none /\ Entry(CLAUDE, q).claudeSessionId \notin excludeSessionIds
       /\ calls[q] = 1 /\ files[<<CLAUDE, q>>] = Entry(CLAUDE, q).hash

(***************************************************************************)
(* C4  deletion of stale records                                           *)
(***************************************************************************)
\* C4: when a pass of source S completes, every path that had a file record under S
\* and was not listed has no file row, no chunk row, no vector-index row and no
\* full-text row under S.
C4_Deletion ==
  PassCompleted =>
    \A p \in staleRows :
      /\ files[<<Source, p>>] = NoRec
      /\ ChunkRows(Source, p) = {}
      /\ VecRows(Source, p) = {}
      /\ FtsRows(Source, p) = {}

(***************************************************************************)
(* C5  reconciliation is scoped to its source                              *)
(***************************************************************************)
RowsOfOtherSources(s) ==
  <<[sp \in {x \in SP : x[1] # s} |-> files[sp]],
    {c \in chunks : c.source # s},
    {v \in vec : v.id[1] # s},
    {f \in fts : f.source # s}>>

\* C5: no statement of the stale-record cleanup of source S deletes or modifies a
\* file, chunk, vector-index or full-text row of another source, also when the other
\* source holds a record with the same path.
C5_SourceScoped ==
  [][(pc \in DeletePhases) =>
       RowsOfOtherSources(Source)' = RowsOfOtherSources(Source)]_vars

\* the cleanup of S has removed a path that another source still holds, with rows
C5_Witness ==
  /\ PassCompleted
  /\ \E p \in staleRows, s \in Sources \ {Source} :
       /\ p \in PathsOf(s)
       /\ files[<<s, p>>] # NoRec /\ ChunkRows(s, p) # {}
       /\ VecRows(s, p) # {} /\ FtsRows(s, p) # {}
       /\ files[<<Source, p>>] = NoRec /\ ChunkRows(Source, p) = {}

(***************************************************************************)
(* C6  reconciliation runs after the tasks                                 *)
(***************************************************************************)
\* C6: within one pass no stale-record delete runs while a task of that pass is
\* running or not yet started; reconciliation begins only after every task completed.
C6_ReconcileAfterTasks ==
  (pc \in DeletePhases \/ PassCompleted) => \A p \in activePaths : task[p] = "done"

\* a delete statement is about to run for a stale path after a task of the same
\* pass went through indexFile and completed
C6_Witness ==
  /\ pc \in DeletePhases /\ staleLeft # {}
  /\ \E p \in activePaths : calls[p] = 1 /\ task[p] = "done"

(***************************************************************************)
(* C7  a failed source does not stop the sync() call                       *)
(***************************************************************************)
Indexed(s, p) ==
  (~Entry(s, p).none /\ ~IsExcluded(s, Entry(s, p), excludeSessionIds)) =>
     files[<<s, p>>] = Entry(s, p).hash

\* C7: when the pass of one source fails, the sync() call does not throw and the pass
\* of every other source still runs in the same call and indexes its files.
C7_SourceIsolation ==
  /\ (pc = "idle" /\ syncs > 0) =>
       ~threw /\ \A s \in Sources : outcome[s] \in {"ok", "failed"}
  /\ PassCompleted => \A p \in activePaths : Indexed(Source, p)

\* the call ended: the first source's pass failed, the second source was indexed
C7_Witness ==
  /\ pc = "idle" /\ syncs > 0 /\ edits = 0
  /\ outcome[CLAUDE] = "failed" /\ outcome[SCRIBE] = "ok"
  /\ \E p \in PathsOf(SCRIBE) : files[<<SCRIBE, p>>] # NoRec /\ ChunkRows(SCRIBE, p) # {}

(***************************************************************************)
(* C8  a failed file does not stop its pass                                *)
(***************************************************************************)
\* C8: when indexFile fails for one file, the remaining files of the source are still
\* processed, stale reconciliation still runs, and the failed file's stored record
\* and chunks are left as they were.
C8_FileIsolation ==
  (pc = "passEnd" /\ \E p \in activePaths : task[p] = "failed") =>
    /\ \A p \in activePaths : task[p] \in {"done", "failed"}
    /\ \A p \in SelectPaths(Source) : ~IsStale(p, activePaths)

(***************************************************************************)
(* C9  change isolation                                                    *)
(***************************************************************************)
\* C9: when exactly one file changed since a sync() call that completed every pass,
\* a non-forced call calls indexFile for no other file and leaves the file record and
\* the chunk rows of every other file of every source unchanged.
C9_ChangeIsolation ==
  [][(pc # "idle" /\ ~needsFullReindex /\ cleanPrev /\ Cardinality(changed) = 1
        /\ changed \subseteq SP) =>
       \A sp \in SP \ changed :
         /\ files'[sp] = files[sp]
         /\ ChunkRows(sp[1], sp[2])' = ChunkRows(sp[1], sp[2])
         /\ (pc' \in {"tasks", "passEnd"} \cup DeletePhases /\ sp[1] = SyncOrder[cur'])
              => calls'[sp[2]] = 0]_vars

\* the changed file was re-indexed under its new hash while the other file of the
\* source was skipped
C9_Witness ==
  /\ PassCompleted /\ ~needsFullReindex /\ cleanPrev
  /\ \E p, q \in activePaths :
       /\ changed = {<<Source, p>>}
       /\ calls[p] = 1 /\ record[p] \notin {NoRec, Entry(Source, p).hash}
       /\ files[<<Source, p>>] = Entry(Source, p).hash
       /\ q # p /\ calls[q] = 0 /\ files[<<Source, q>>] # NoRec

(***************************************************************************)
(* C10  project filter of the search functions                             *)
(***************************************************************************)
ResultIds == {result[i].id : i \in DOMAIN result}
ChunkOfId(id) == CHOOSE c \in chunks : c.id = id
\* the chunks a call can return when the project is left out of account
Eligible(c) ==
  /\ c.model = search.providerModel
  /\ c.source \in search.sourceFilter
  /\ search.fn = "searchVector" =>
       /\ search.queryVec # <<>> /\ search.limit > 0
       /\ search.ready => \E v \in vec : v.id = c.id
  /\ search.fn = "searchKeyword" =>
       /\ search.ftsQuery # NULL /\ search.limit > 0
       /\ \E f \in fts : f.id = c.id /\ f.text = search.ftsQuery
Wanted ==
  {c.id : c \in {x \in chunks : Eligible(x) /\ (search.project # NoProject => x.project = search.project)}}
\* the most rows a call returns: LIMIT ? of a call that reaches its query
Limit ==
  IF search.fn = "listChunks" THEN MaxChunks + 1
  ELSE IF search.limit > 0 THEN search.limit ELSE 0

\* C10: listChunks, searchVector and searchKeyword called with project P return only
\* chunks whose project equals P (another project and a null project are excluded, a
\* project without chunks gives an empty result); called without a project they return
\* the chunks that match the model and source filters whatever their project, up to
\* the limit of the call.
C10_ProjectFilter ==
  search # NoSearch =>
    /\ ResultIds \subseteq Wanted
    /\ search.project # NoProject =>
         \A id \in ResultIds : ChunkOfId(id).project = search.project
    /\ IF Cardinality(Wanted) <= Limit THEN ResultIds = Wanted
       ELSE Cardinality(ResultIds) = Limit

\* a keyword search for project "a" returned the chunk of project "a" from a store
\* that also holds a matching chunk without project
C10_Witness ==
  /\ search # NoSearch /\ search.fn = "searchKeyword" /\ search.project = "a"
  /\ Len(result) = 1 /\ ChunkOfId(result[1].id).project = "a"
  /\ \E c \in chunks : c.project = NULL /\ Eligible(c)

(***************************************************************************)
(* C11  project filter as the query engine specifies it                    *)
(***************************************************************************)
\* the chunks the specified filter matches: project equal to P, or null
WantedOrNull ==
  {c.id : c \in {x \in chunks : Eligible(x) /\ (search.project # NoProject =>
                                                  x.project \in {search.project, NULL})}}

\* C11: a search with a requested project P returns exactly the chunks whose project
\* equals P or is null, and leaves out only chunks with another non-null project, in
\* the vector path and in the keyword path alike.
C11_ProjectOrNull ==
  (search # NoSearch /\ search.fn \in {"searchVector", "searchKeyword"}
     /\ search.project # NoProject) =>
    /\ ResultIds \subseteq WantedOrNull
    /\ IF Cardinality(WantedOrNull) <= search.limit THEN ResultIds = WantedOrNull
       ELSE Cardinality(ResultIds) = search.limit

(***************************************************************************)
(* C12  rows of the derived indices belong to live chunks                  *)
(***************************************************************************)
ChunkIds == {c.id : c \in chunks}

\* C12: in every state a sequence of sync passes leaves the store in, every row of
\* the vector index and every row of the full-text index has the id of a chunk that
\* is in the chunks table.
C12_DerivedIndex ==
  (pc \in {"idle", "passEnd"}) =>
    /\ \A v \in vec : v.id \in ChunkIds
    /\ \A f \in fts : f.id \in ChunkIds

(***************************************************************************)
(* C13  every chunk belongs to a file record                               *)
(***************************************************************************)
\* C13: in every reachable state, the states between the delete statements of stale
\* reconciliation included, the (path, source) of every chunk row has a file record.
C13_ChunkOwnership ==
  \A c \in chunks : files[<<c.source, c.path>>] # NoRec

(***************************************************************************)
(* C20  text extraction                                                    *)
(***************************************************************************)
\* the texts a record is said to contribute: its string content, or the texts of its
\* blocks of type "text", when it is a user or assistant record
RECURSIVE TextsOfBlocks(_, _)
TextsOfBlocks(blocks, i) ==
  IF i > Len(blocks) THEN <<>>
  ELSE (IF blocks[i].type = "text" /\ blocks[i].text # NoText
          THEN <<blocks[i].text>> ELSE <<>>) \o TextsOfBlocks(blocks, i + 1)
TextsOfLine(line, withEmpty) ==
  IF line.type \notin {"user", "assistant"} THEN <<>>
  ELSE IF line.content.kind = "string"
    THEN (IF line.content.text = EmptyStr /\ ~withEmpty THEN <<>> ELSE <<line.content.text>>)
  ELSE IF line.content.kind = "array" THEN TextsOfBlocks(line.content.blocks, 1)
  ELSE <<>>
RECURSIVE TextsOf(_, _, _)
TextsOf(lines, i, withEmpty) ==
  IF i > Len(lines) THEN <<>>
  ELSE TextsOfLine(lines[i], withEmpty) \o TextsOf(lines, i + 1, withEmpty)
RECURSIVE Joined(_, _)
Joined(texts, i) ==
  IF i > Len(texts) THEN EmptyStr
  ELSE IF i = Len(texts) THEN texts[i]
  ELSE texts[i] \o Separator \o Joined(texts, i + 1)

\* C20 as stated: the result is the texts of every string content and of every block
\* of type "text" of the user and assistant records, in record and block order, joined
\* with "\n\n".
C20_AsStated ==
  (search # NoSearch /\ search.fn = "extractClaudeSessionText") =>
    result = Joined(TextsOf(search.lines, 1, TRUE), 1)

\* C20 amended: the same, where a string content that is the empty string contributes
\* nothing (a text block whose text is the empty string still contributes it).
C20_TextExtraction ==
  (search # NoSearch /\ search.fn = "extractClaudeSessionText") =>
    result = Joined(TextsOf(search.lines, 1, FALSE), 1)

\* an assistant record with a text block followed by a tool_use block, after a user
\* record with string content: the result is the two texts around one separator
C20_Witness ==
  /\ search # NoSearch /\ search.fn = "extractClaudeSessionText"
  /\ Len(search.lines) = 2
  /\ search.lines[1] = [type |-> "user", content |-> StringContent(Str("a"))]
  /\ search.lines[2] = [type |-> "assistant",
                        content |-> ArrayContent(<<TextBlock(Str("b")), ToolUseBlock>>)]
  /\ result = <<"a", "\n\n", "b">>

(***************************************************************************)
(* C19  hybrid merge                                                       *)
(***************************************************************************)
MergedIds == {result[i].id : i \in DOMAIN result}
Combined(id) ==
  search.vectorWeight * ScoreIn(search.vector, id) + search.textWeight * ScoreIn(search.keyword, id)
InputIds ==
  {search.vector[i].id : i \in DOMAIN search.vector}
    \cup {search.keyword[i].id : i \in DOMAIN search.keyword}

\* C19: the merged result holds each chunk id at most once; the score of a chunk is
\* vectorWeight * vectorScore + textWeight * textScore, a missing path counting 0; the
\* list is in non-increasing score order, has no entry below minScore and at most
\* maxResults entries; and the same inputs give one ordering only.
C19_HybridMerge ==
  (search # NoSearch /\ search.fn = "mergeHybridResults") =>
    /\ \A i, j \in DOMAIN result : i # j => result[i].id # result[j].id
    /\ MergedIds \subseteq InputIds
    /\ \A i \in DOMAIN result : result[i].score = Combined(result[i].id)
    /\ \A i, j \in DOMAIN result : i < j => result[i].score >= result[j].score
    /\ \A i \in DOMAIN result : result[i].score >= search.minScore
    /\ Len(result) <= search.maxResults
    /\ Len(result) < search.maxResults =>
         \A id \in InputIds : Combined(id) >= search.minScore => id \in MergedIds
    /\ \A r \in HybridOutcomes(search.vector, search.keyword, search.vectorWeight,
                               search.textWeight, search.minScore, search.maxResults) :
         r = result

\* with the default weights a chunk found by both paths and a chunk found by the
\* keyword path only are merged: 0.7 * 0.5 + 0.3 * 1 = 0.65 before 0.3 * 1 = 0.30
C19_Witness ==
  /\ search # NoSearch /\ search.fn = "mergeHybridResults"
  /\ search.vectorWeight = DefaultVectorWeight /\ search.textWeight = DefaultTextWeight
  /\ search.vector = <<[id |-> 1, score |-> 50]>>
  /\ search.keyword = <<[id |-> 2, score |-> 100], [id |-> 1, score |-> 100]>>
  /\ search.minScore = 0
  /\ result = <<[id |-> 1, score |-> 6500], [id |-> 2, score |-> 3000]>>

(***************************************************************************)
(* C14  crash-safe full reindex                                            *)
(***************************************************************************)
\* C14: a full reindex that has not swapped, whether it is still running or was
\* interrupted, has left the committed dataset and its metadata as they were when
\* it started; and the temporary store of a running pass holds nothing but what
\* this pass built, so what an interrupted reindex left behind was discarded when
\* the next pass started.
C14_CrashSafeReindex ==
  /\ (run.mode = "reindex" /\ run.last # "swapped") =>
        (mainDb = run.beforeDb /\ meta = run.beforeMeta)
  /\ PassRunning =>
        tempDb = IF run.mode = "reindex"
                 THEN [exists |-> TRUE, rows |-> {BuildRow(f, run.dims) : f \in run.done}]
                 ELSE NoTemp

\* a reindex for the new provider was killed with part of the new dataset built:
\* the committed dataset is still the complete previous one
C14_Witness ==
  /\ run.mode = "reindex" /\ run.last = "killed"
  /\ run.done # {} /\ run.done # run.targets
  /\ tempDb.rows = {BuildRow(f, "d1536") : f \in run.done}
  /\ mainDb = FullDataset("d768")
  /\ meta = MetaOf("d768")

(***************************************************************************)
(* C15  no half-rebuilt view                                               *)
(***************************************************************************)
\* C15: every read of a query returns the main dataset; and while a full reindex
\* runs, the main dataset changes only by the swap, which puts the complete new
\* dataset in place while no query is in flight.
C15_NoHalfRebuiltView ==
  [][/\ (query'.phase \in {"vector", "keyword"} /\ query' # query) =>
          query'.reads[Len(query'.reads)] = mainDb
     /\ (PassRunning /\ run.mode = "reindex") =>
          \/ mainDb' = mainDb
          \/ /\ query.phase = "none"
             /\ mainDb' = FullDataset(providerDims)]_vars

\* a query made both reads while a reindex had built part of the new dataset, and
\* both returned the complete previous dataset
C15_Witness ==
  /\ PassRunning /\ run.mode = "reindex"
  /\ run.done # {} /\ run.done # run.targets
  /\ query.phase = "keyword"
  /\ query.reads = <<FullDataset("d768"), FullDataset("d768")>>
  /\ providerDims = "d1536"

(***************************************************************************)
(* C16  full-reindex trigger                                               *)
(***************************************************************************)
\* C16: the pass is a full reindex if and only if it was forced, or the stored
\* schema version was behind, or the stored dimensionality was present, differed
\* from the provider's, and the store was not empty.
C16_ReindexTrigger ==
  run.mode # "none" =>
    (run.mode = "reindex" <=>
       \/ run.force
       \/ run.beforeMeta.schemaVersion = "behind"
       \/ /\ run.beforeMeta.dims # "none"
          /\ run.beforeMeta.dims # run.dims
          /\ run.beforeDb # {})

\* a pass that was not forced, on a non-empty store whose metadata has the current
\* schema version and no dimensionality, runs incrementally
C16_Witness ==
  /\ PassRunning /\ run.mode = "incremental"
  /\ ~run.force
  /\ run.beforeMeta = [schemaVersion |-> "current", dims |-> "none"]
  /\ run.beforeDb # {}

C18_MetaOrdering ==
  [][meta' # meta =>
       /\ PassRunning
       /\ run'.last \in {"swapped", "completed"}
       /\ meta' = MetaOf(providerDims)
       /\ \A f \in run.targets : BuildRow(f, providerDims) \in mainDb']_vars

\* after an earlier pass was interrupted, a pass completed and wrote the metadata
C18_Witness ==
  /\ kills > 0
  /\ run.last = "completed"
  /\ run.targets # {}
  /\ meta # run.beforeMeta
  /\ meta = MetaOf(providerDims)

(***************************************************************************)
(* C21  malformed records are skipped individually                         *)
(***************************************************************************)
IsRecordLine(line) == line.kind \in {"blank", "record"}
WithoutMalformed(file) == [file EXCEPT !.lines = SelectSeq(@, IsRecordLine)]

\* C21: buildClaudeSessionEntry returns for a file what it returns for the file
\* without its malformed lines (lines that are not JSON, and lines whose JSON is
\* not a record): the same entry, or null in both cases, and no rejection.
C21_MalformedSkipped ==
  search.fn = "buildClaudeSessionEntry" =>
    result = buildClaudeSessionEntry(search.absPath, WithoutMalformed(search.file))

(***************************************************************************)
(* C22  empty content produces no entry                                    *)
(***************************************************************************)
\* C22: a session file that is empty or whitespace-only, or whose extracted
\* content is empty or whitespace-only, and a markdown file that is empty or
\* whitespace-only, give null (no entry, no rejection).
C22_EmptyNoEntry ==
  /\ (/\ search.fn = "buildClaudeSessionEntry"
      /\ search.file.readable
      /\ \A i \in 1..Len(search.file.lines) : search.file.lines[i].kind # "null"
      /\ \/ \A i \in 1..Len(search.file.lines) : search.file.lines[i].kind = "blank"
         \/ IsBlankStr(extractClaudeSessionText(ParsedLines(search.file.lines))))
       => result = AdapterNull
  /\ (/\ search.fn = "buildScribeFileEntry"
      /\ search.file.readable
      /\ IsBlankStr(search.file.content))
       => result = AdapterNull

IsObjectEntry(entry) == entry.kind = "object"

\* C24: loadMoltbotClaudeSessionIds always returns; it returns the empty set for a
\* store file that is absent, not JSON, an array or not an object; and for a map
\* of records it returns what it returns for the map without its null and
\* non-object entries.
C24_LoadNeverErrors ==
  search.fn = "loadMoltbotClaudeSessionIds" =>
    /\ result.status = "returned"
    /\ search.store.kind \in BadStoreKinds => result.ids = {}
    /\ search.store.kind = "object" =>
         result = loadMoltbotClaudeSessionIds(
                    StoreFile("object", SelectSeq(search.store.entries, IsObjectEntry)))

\* a store with a null entry before a record that carries an id
C24_Witness ==
  /\ search.fn = "loadMoltbotClaudeSessionIds"
  /\ search.store.kind = "object"
  /\ search.store.entries = <<NullEntry, StoreRecord(CliMissing, "s1")>>
  /\ result = IdsResult("returned", {"s1"})

(***************************************************************************)
(* C25  content of the exclusion set                                       *)
(***************************************************************************)
\* C25: for a map of records the result is the set of the non-empty strings found
\* at cliSessionIds["claude-cli"] or at claudeCliSessionId of some record.
C25_ExclusionSet ==
  (search.fn = "loadMoltbotClaudeSessionIds" /\ search.store.kind = "object") =>
    result.ids =
      {v \in {"s1", "s2"} :
         \E i \in 1..Len(search.store.entries) :
           LET entry == search.store.entries[i]
           IN /\ entry.kind = "object"
              /\ \/ entry.cliSessionIds.kind = "object" /\ entry.cliSessionIds.claude = v
                 \/ entry.claudeCliSessionId = v}

\* both shapes in one store, the same id twice, an id of another CLI and an empty id
C25_Witness ==
  /\ search.fn = "loadMoltbotClaudeSessionIds"
  /\ search.store.kind = "object"
  /\ search.store.entries = <<StoreRecord(CliMap("s1", "s2"), ""), StoreRecord(CliMissing, "s1")>>
  /\ result.ids = {"s1"}

(***************************************************************************)
(* C26  listing never throws                                               *)
(***************************************************************************)
\* C26: listClaudeSessionFiles always returns; it returns nothing for a base
\* directory that is missing or unreadable, and otherwise exactly the regular
\* files named *.jsonl directly inside the readable directories of the base.
C26_Listing ==
  search.fn = "listClaudeSessionFiles" =>
    /\ result.status = "returned"
    /\ search.base.state # "readable" => result.paths = {}
    /\ search.base.state = "readable" =>
         \A nm \in BaseNames, f \in ProjectDirEntries :
           <<nm, f.name>> \in result.paths <=>
             \E e \in search.base.entries :
               /\ e.name = nm /\ e.type = "directory" /\ e.readable
               /\ f \in e.entries
               /\ f.type = "file" /\ f.name[Len(f.name)] = ".jsonl"
    /\ \A path \in result.paths : \E nm \in BaseNames, f \in ProjectDirEntries : path = <<nm, f.name>>

\* an unreadable project directory next to a readable one that holds a session file
C26_Witness ==
  /\ search.fn = "listClaudeSessionFiles"
  /\ \E e \in search.base.entries : e.type = "directory" /\ ~e.readable
  /\ result.paths = {<<"proj2", <<"abc123", ".jsonl">>>>}

(***************************************************************************)
(* C27  a forced re-sync preserves the counts                              *)
(***************************************************************************)
\* C27: when two forced sync() calls in a row complete every source's pass and no
\* file and no session id changed between them, the number of file records and
\* the number of chunk rows after the second equal those after the first.
C27_ForcedResyncCounts ==
  forcedCounts.second.valid => forcedCounts.second = forcedCounts.first

\* the second forced call ran under another model: every chunk row was rewritten
C27_Witness ==
  /\ pc = "idle"
  /\ forcedCounts.second.valid
  /\ forcedCounts.second.chunks >= 2
  /\ \A c \in chunks : c.model = "m2"

C29_DedupAcrossPasses ==
  (PassCompleted /\ Source = CLAUDE) =>
     \A p \in PathsOf(CLAUDE) :
       ClaudeSessionId(p) \in excludeSessionIds =>
         /\ files[<<CLAUDE, p>>] = NoRec
         /\ ChunkRows(CLAUDE, p) = {}

(***************************************************************************)
(* C30  emptied files leave no record                                      *)
(***************************************************************************)
\* C30: when a source's pass has completed, no listed file for which the adapter
\* returns no entry has a file record or a chunk row in the store.
C30_EmptiedFiles ==
  PassCompleted =>
     \A p \in ListFiles(disk, Source) :
       Entry(Source, p).none =>
         /\ files[<<Source, p>>] = NoRec
         /\ ChunkRows(Source, p) = {}

(***************************************************************************)
(* C31  a forced pass re-indexes everything                                *)
(***************************************************************************)
\* C31: in a pass with needsFullReindex, indexFile is called exactly once for every
\* listed file that yields an entry and is not excluded, once its task has run,
\* whether or not the stored hash equals the entry's hash; no file is passed to
\* indexFile twice, and when the pool has resolved every such file was passed.
C31_ForcedReindexesAll ==
  (InPass /\ needsFullReindex) =>
    \A p \in activePaths :
      /\ calls[p] <= 1
      /\ (~Entry(Source, p).none /\ ~IsExcluded(Source, Entry(Source, p), excludeSessionIds)
            /\ (Decided(p) \/ PassCompleted)) => calls[p] = 1

\* a forced pass completed: it called indexFile for a file whose stored hash was
\* equal to its entry's hash, and for a file that had no record
C31_Witness ==
  /\ PassCompleted /\ needsFullReindex
  /\ \E p, q \in activePaths :
       /\ ~Entry(Source, p).none /\ record[p] = Entry(Source, p).hash /\ calls[p] = 1
       /\ ~Entry(Source, q).none /\ record[q] = NoRec /\ calls[q] = 1

(***************************************************************************)
(* C32  convergence without a reindex loop                                 *)
(***************************************************************************)
\* the pass started on a store whose metadata had no embedding dimensions, or whose
\* tables were empty, and whose schema version was not behind
StartedWithoutDimsOrRows ==
  /\ run.mode # "none"
  /\ run.beforeMeta.schemaVersion # "behind"
  /\ run.beforeMeta.dims = "none" \/ run.beforeDb = {}

\* every file of the corpus is indexed and the next pass is not a full reindex
Converged ==
  /\ IndexedFiles(mainDb) = CorpusFiles
  /\ ~NeedsFullReindex(FALSE, meta, providerDims, mainDb = {})
  /\ ~(PassRunning /\ run.mode = "reindex")

\* C32: over an unchanged corpus, with a provider that does not fail, repeated
\* non-forced passes that may be killed after any number of per-file writes never
\* remove an indexed file; a pass that starts on a store without dimensions in its
\* metadata, or with empty tables, is not a full reindex and the writes it made
\* before a kill stay in the main dataset; eventually a pass completes with every
\* file indexed, and from some point on every file stays indexed and no pass is a
\* full reindex.
C32_Convergence ==
  /\ [][IndexedFiles(mainDb) \subseteq IndexedFiles(mainDb')]_vars
  /\ [](StartedWithoutDimsOrRows =>
          (run.mode = "incremental" /\ run.done \subseteq IndexedFiles(mainDb)))
  /\ <>(run.last \in {"swapped", "completed"} /\ Converged)
  /\ <>[]Converged

\* a store with one file and no dimensions in its metadata: after killed passes, a
\* pass completed and every file is indexed
C32_Witness ==
  /\ kills > 0
  /\ run.last = "completed"
  /\ run.beforeMeta = [schemaVersion |-> "current", dims |-> "none"]
  /\ Cardinality(run.beforeDb) = 1
  /\ Converged

(***************************************************************************)
(* C33  progress accounting                                                *)
(***************************************************************************)
\* the tasks that reach their end in this step
EndingTasks == {p \in Paths : task[p] # "done" /\ task'[p] = "done"}

\* C33: with a progress object, the step that begins a pass adds the number of
\* listed files to total while every task is still to run; a step of the pass adds
\* to completed the number of tasks that end in it (one per file, whether the file
\* gave no entry, was excluded, was unchanged or was indexed) and nothing else
\* changes the counters; completed never decreases and never exceeds total, in the
\* object and in every reported update; and when a pass completes, completed has
\* grown by the number of listed files.
C33_ProgressAccounting ==
  [][progress'.present =>
       /\ pc = "begin" =>
            /\ progress'.total = progress.total + Cardinality(activePaths')
            /\ progress'.completed = progress.completed
            /\ \A p \in activePaths' : task'[p] = "pending"
       /\ pc = "tasks" =>
            /\ progress'.total = progress.total
            /\ progress'.completed = progress.completed + Cardinality(EndingTasks)
       /\ pc \notin {"idle", "begin", "tasks"} => progress' = progress
       /\ progress'.completed <= progress'.total
       /\ progressLog'.last.completed <= progressLog'.last.total
       /\ progressLog'.last # progressLog.last =>
            /\ progressLog'.last = UpdateOf(progress')
            /\ pc = "idle" \/ progressLog'.last.completed >= progressLog.last.completed
       /\ (pc' = "passEnd" /\ outcome'[SyncOrder[cur']] = "ok") =>
            progress'.completed = progressLog'.atStart.completed + Cardinality(activePaths')]_vars

\* a pass over two listed files completed: one was excluded, the other indexed, and
\* the last update reported 2 of 2
C33_Witness ==
  /\ PassCompleted /\ Source = CLAUDE
  /\ progress = [present |-> TRUE, completed |-> 2, total |-> 2]
  /\ progressLog.last = [completed |-> 2, total |-> 2]
  /\ \E p, q \in activePaths :
       /\ ~Entry(CLAUDE, p).none /\ IsExcluded(CLAUDE, Entry(CLAUDE, p), excludeSessionIds)
       /\ calls[p] = 0
       /\ calls[q] = 1

(***************************************************************************)
(* C34  the slug and the last marker                                       *)
(***************************************************************************)
\* C34: when the parent directory's name contains the marker "projects-" more than
\* once, extractProjectSlug returns the text that follows the last occurrence.
C34_SlugLastMarker ==
  search.fn = "extractProjectSlug" =>
    LET dirName == search.sessionPath.dir
        markers == {i \in 1..Len(dirName) : dirName[i] = Marker}
    IN Cardinality(markers) > 1 =>
         \E i \in markers :
           /\ \A j \in markers : j <= i
           /\ result = [k \in 1..(Len(dirName) - i) |-> dirName[i + k]]

ComparedFiles == {ReadableFile(lines) : lines \in UNION {[1..n -> RawLines] : n \in 0..1}}

\* C36: the hash of an entry is the digest of its extracted text; compared with the
\* entry of any other path and file, the hashes are equal exactly when the extracted
\* texts are equal, whatever the paths, session ids, malformed lines and discarded
\* records; and a non-forced pass that stored the hash of one of two files with
\* equal text finds the other unchanged.
C36_HashOfContent ==
  (search.fn = "buildClaudeSessionEntry" /\ result.status = "entry") =>
    /\ result.hash = Sha256Of(result.content)
    /\ \A absPath \in BuildPaths, file \in ComparedFiles :
         LET other == buildClaudeSessionEntry(absPath, file)
         IN other.status = "entry" =>
              /\ (other.hash = result.hash) <=> (other.content = result.content)
              /\ other.content = result.content => ~NeedsIndex(FALSE, other.hash, result)

\* a file with an unparseable line and its own session id has the hash of the
\* one-line file with the same text under another path and another session id
C36_Witness ==
  /\ search.fn = "buildClaudeSessionEntry"
  /\ search.absPath = SessionPath(<<"random-dir">>, SessionFile)
  /\ search.file.lines = <<UnparseableLine, RecordLine("user", StringContent(Str("a")), "s2")>>
  /\ result.status = "entry"
  /\ result.hash = buildClaudeSessionEntry(
                     SessionPath(<<"-home-ben-", Marker, "mine">>, SessionFile),
                     ReadableFile(<<RecordLine("user", StringContent(Str("a")), "s1")>>)).hash

(***************************************************************************)
(* C37  bounds of the results                                              *)
(***************************************************************************)
\* C37: searchVector and searchKeyword return at most `limit` rows; searchVector
\* returns the empty list when the query vector is empty or limit <= 0, and
\* searchKeyword when limit <= 0 or the full-text query builder yields no query;
\* the in-memory fallback of searchVector returns its rows by non-increasing score
\* and returns no candidate whose score is not finite.
C37_ResultBounds ==
  /\ search.fn \in {"searchVector", "searchKeyword"} =>
       Len(result) <= (IF search.limit > 0 THEN search.limit ELSE 0)
  /\ (search.fn = "searchVector" /\ (search.queryVec = <<>> \/ search.limit <= 0)) =>
       result = <<>>
  /\ (search.fn = "searchKeyword" /\ (search.limit <= 0 \/ search.ftsQuery = NULL)) =>
       result = <<>>
  /\ (search.fn = "searchVector" /\ ~search.ready) =>
       /\ \A i, j \in DOMAIN result : i < j => result[i].score >= result[j].score
       /\ \A i \in DOMAIN result :
            cosineSimilarity(search.queryVec, ChunkOfId(result[i].id).embedding).finite

\* the fallback, called with limit 2 on two chunks of the model of which one has a
\* score that is not finite, returned the other one alone
C37_Witness ==
  /\ search.fn = "searchVector" /\ ~search.ready /\ search.limit = 2
  /\ search.queryVec # <<>>
  /\ Cardinality({c \in chunks : c.model = search.providerModel}) = 2
  /\ \E c \in chunks : c.model = search.providerModel /\ c.embedding = OverflowEmbedding
  /\ Len(result) = 1

(***************************************************************************)
(* C38  restriction to the provider's model                                *)
(***************************************************************************)
\* the chunks that pass the restrictions of the call in `search`
Admitted ==
  {c \in chunks : /\ c.model = search.providerModel
                  /\ c.source \in search.sourceFilter
                  /\ search.project # NoProject => c.project = search.project}
IdsOf(rows) == {rows[i].id : i \in DOMAIN rows}

C39_CacheUntouched ==
  [][/\ embeddingCache \subseteq embeddingCache'
     /\ embeddingCache' # embeddingCache =>
          \E p \in Paths : task[p] = "indexing" /\ task'[p] = "done"
     /\ pc \in DeletePhases =>
          /\ embeddingCache' = embeddingCache
          /\ UNCHANGED <<envVars, cfgVars>>]_vars

\* a pass has removed a stale file, and the cache still holds an entry for a chunk
\* text that no chunk of the store has any more
C39_Witness ==
  /\ PassCompleted /\ staleRows # {}
  /\ \E e \in embeddingCache : \A c \in chunks : ~(c.model = e.model /\ c.text = e.text)

====
